---- MODULE Spec2Model ----
(***************************************************************************)
(* Storacha tutorials: the useStoracha hooks of the Vault dApp and of the  *)
(* UCAN-Expert front end (session store, delegation bootstrap, uploads)    *)
(* and the base64 normaliser of the UCAN-Expert backend.                   *)
(*                                                                         *)
(* Strings whose characters matter (keys, proofs, capability names) are    *)
(* sequences of one-character strings.  Opaque strings (DIDs, e-mails,     *)
(* messages) are TLA+ strings.  A nullable value is a sequence of length   *)
(* 0 (null / undefined / absent) or 1.                                     *)
(***************************************************************************)
EXTENDS Integers, Sequences, FiniteSets, Bags, TLC

VARIABLES
    app,            \* which hook this instance runs: "dapp" | "expert"
    mounted,        \* "no" | "yes" | "crashed" (the state initialiser threw)
    localStorage,   \* [session, uploads]: nullable token sequences
    client,         \* useState client (nullable SDK client)
    space,          \* useState space (nullable DID of the space object)
    spaceDid,       \* useState spaceDid (expert hook only)
    isInitializing,
    isConnected,    \* dApp hook only
    error,          \* nullable error message
    userSession,
    uploadedFiles,
    isUploading,    \* expert hook only
    uploadProgress, \* fileId -> progress entry
    abortControllers, \* set of fileIds with a registered controller
    timers,         \* pending timers: interval and timeout records
    now,            \* Date.now()
    calls,          \* bag of async calls suspended at an await
    uploads,        \* bag of uploadFile calls suspended at client.uploadFile
    started,        \* uploadFile calls that reached the SDK so far
    lastReturn,     \* nullable: the call that returned in the last step
    b64in, b64out,  \* input and result of the backend's cleanBase64
    delegationStorage, \* [delegation, spaceInfo]: the entries lib/api.ts keeps
    storageReturn,  \* nullable: what the last call of lib/api.ts storage returned
    utilsInput,     \* the arguments given to a function of lib/api.ts utils
    utilsReturn,    \* nullable: what that function returned or threw
    retry,          \* the run of getDelegationWithRetry
    server          \* server.js: its environment, storachaClient, the clients
                    \* it created and the requests it is serving

libVars == <<delegationStorage, storageReturn, utilsInput, utilsReturn, retry, server>>

vars == <<app, mounted, localStorage, client, space, spaceDid, isInitializing,
          isConnected, error, userSession, uploadedFiles, uploadProgress,
          abortControllers, timers, now, calls, uploads, started, lastReturn,
          b64in, b64out, libVars, isUploading>>

hookVars == <<app, mounted, localStorage, client, space, spaceDid,
              isInitializing, isConnected, error, userSession, uploadedFiles,
              uploadProgress, abortControllers, timers, now, calls, uploads,
              started, lastReturn, isUploading>>

----------------------------------------------------------------------------
(* Nullable values *)

Null == <<>>
Some(x) == <<x>>
IsNull(o) == o = <<>>
Val(o) == o[1]

\* a set given by a filter, as the explicit set of its elements
Enumerated(S) == { x : x \in S }

----------------------------------------------------------------------------
(* Character strings *)

Rep(c, n) == [i \in 1..n |-> c]

Upper == {"A","B","C","D","E","F","G","H","I","J","K","L","M",
          "N","O","P","Q","R","S","T","U","V","W","X","Y","Z"}
Lower == {"a","b","c","d","e","f","g","h","i","j","k","l","m",
          "n","o","p","q","r","s","t","u","v","w","x","y","z"}
Digit == {"0","1","2","3","4","5","6","7","8","9"}

\* the character class [A-Za-z0-9+/=]
Base64Alphabet == Upper \cup Lower \cup Digit \cup {"+", "/", "="}
IsBase64Char(c) == c \in Base64Alphabet

\* the character class \s
WhitespaceChars == {" ", "\n", "\t", "\r"}
IsWhitespace(c) == c \in WhitespaceChars

RECURSIVE TrimStart(_)
TrimStart(s) ==
    IF s # <<>> /\ IsWhitespace(Head(s)) THEN TrimStart(Tail(s)) ELSE s

RECURSIVE TrimEnd(_)
TrimEnd(s) ==
    IF s # <<>> /\ IsWhitespace(s[Len(s)])
    THEN TrimEnd(SubSeq(s, 1, Len(s) - 1)) ELSE s

\* String.prototype.trim
Trim(s) == TrimEnd(TrimStart(s))

\* String.prototype.startsWith
StartsWith(s, p) == Len(s) >= Len(p) /\ SubSeq(s, 1, Len(p)) = p

\* String.prototype.includes
Includes(s, sub) ==
    \E i \in 0..(Len(s) - Len(sub)) : SubSeq(s, i + 1, i + Len(sub)) = sub

\* the hooks' cleanBase64: input.replace(/[^A-Za-z0-9+/=]/g, '').trim()
cleanBase64(input) == Trim(SelectSeq(input, IsBase64Char))

\* padding forgotten
NoPadding(s) == s

RECURSIVE PadTo4(_)
PadTo4(s) == IF Len(s) % 4 # 0 THEN PadTo4(Append(s, "=")) ELSE s

\* the backend's cleanBase64; Null models the null it returns for a falsy input
serverCleanBase64(input) ==
    IF input = <<>> THEN Null
    ELSE LET noSpace == SelectSeq(Trim(input), LAMBDA c : ~IsWhitespace(c))
             cleaned == SelectSeq(noSpace, IsBase64Char)
         IN  Some(PadTo4(cleaned))

----------------------------------------------------------------------------
(* Bounds *)

MaxCalls == 1       \* async hook calls suspended at the same time

----------------------------------------------------------------------------
(* SDK values: DIDs, spaces, clients *)

S1 == "did:key:z6MkS1"
S2 == "did:key:zspaceS2"
S3 == "did:key:z6MkS3"
AgentDid == "did:key:z6MkAgent"
DEFAULT_SPACE_NAME == "artboard-space"
DEFAULT_GATEWAY == "storacha.link"

\* s.did().includes('space') for the DIDs of the model
DidIncludesSpace(did) == did = S2

SpaceObject(did, name) == [did |-> did, name |-> name]

\* the space lists an account or a fresh client can know: none, one space,
\* a space of the default name behind another one, a DID that contains 'space'
SpaceLists ==
    { <<>>,
      <<SpaceObject(S1, "docs")>>,
      <<SpaceObject(S1, "docs"), SpaceObject(S3, DEFAULT_SPACE_NAME)>>,
      <<SpaceObject(S2, "docs")>>,
      <<SpaceObject(S1, "docs"), SpaceObject(S2, "docs")>> }

\* an SDK client: its agent, the spaces it knows, its current space ("" = none)
NewClient == [agent |-> AgentDid, spaces |-> <<>>, current |-> ""]

\* Array.prototype.find: the first element satisfying the test, or undefined;
\* hits are the indices of the elements that satisfy it
Find(seq, hits) ==
    IF hits # {}
    THEN Some(seq[CHOOSE i \in hits : \A j \in hits : i <= j])
    ELSE Null

----------------------------------------------------------------------------
(* Sessions and their JSON form.  A JSON text is a sequence of fragments.  *)

DelegationEmail ==
    <<"d","e","l","e","g","a","t","i","o","n","@","u","s","e","r">>
GoodEmail == <<"a","@","b",".","c">>

DefaultSession ==
    [email |-> <<>>, isLoggedIn |-> FALSE, method |-> Null,
     spaceDid |-> "", agentDid |-> ""]

SessionValues ==
    [email : {<<>>, GoodEmail, DelegationEmail}, isLoggedIn : BOOLEAN,
     method : {Null, Some("email"), Some("delegation")},
     spaceDid : {"", S1, S2, S3, "did:key:z6MkNew"}, agentDid : {"", AgentDid}]

JSONstring(chars) == <<"\"">> \o chars \o <<"\"">>

JSONstringifySession(s) ==
    <<"{", "\"email\":">> \o JSONstring(s.email)
    \o <<",", "\"isLoggedIn\":", IF s.isLoggedIn THEN "true" ELSE "false">>
    \o <<",", "\"method\":">>
    \o (IF IsNull(s.method) THEN <<"null">> ELSE JSONstring(<<Val(s.method)>>))
    \o <<",", "\"spaceDid\":">> \o JSONstring(<<s.spaceDid>>)
    \o <<",", "\"agentDid\":">> \o JSONstring(<<s.agentDid>>)
    \o <<"}">>

\* JSON.parse on the texts of the model: the session a text serialises, or a
\* SyntaxError when it serialises none
JSONparseSession(text) ==
    IF \E x \in SessionValues : JSONstringifySession(x) = text
    THEN [ok |-> TRUE,
          value |-> CHOOSE x \in SessionValues : JSONstringifySession(x) = text]
    ELSE [ok |-> FALSE, value |-> DefaultSession]


----------------------------------------------------------------------------
(* Files, upload records and their JSON form *)

ImagePng == <<"i","m","a","g","e","/","p","n","g">>
TextPlain == <<"t","e","x","t","/","p","l","a","i","n">>

\* the File objects handed to uploadFile
Files == { [name |-> "a.png", type |-> ImagePng, size |-> 2097152],
           [name |-> "n.txt", type |-> TextPlain, size |-> 10] }

\* the CID the SDK returns for a file: content-addressed
CidOf(file) == IF file.name = "a.png" THEN "bafyA" ELSE "bafyB"

DigitChar(d) == CASE d = 0 -> "0" [] d = 1 -> "1" [] d = 2 -> "2" [] d = 3 -> "3"
                  [] d = 4 -> "4" [] d = 5 -> "5" [] d = 6 -> "6" [] d = 7 -> "7"
                  [] d = 8 -> "8" [] d = 9 -> "9"

\* String(n) for a natural number
RECURSIVE NumberToString(_)
NumberToString(n) ==
    IF n < 10 THEN <<DigitChar(n)>>
    ELSE Append(NumberToString(n \div 10), DigitChar(n % 10))

GatewayUrl(cid) == <<"https://", cid, ".ipfs.", DEFAULT_GATEWAY>>

\* a thumbnail without the resize hint
PlainThumbnailUrl(file, cid) == GatewayUrl(cid)

ThumbnailUrl(file, cid) ==
    IF StartsWith(file.type, <<"i","m","a","g","e","/">>)
    THEN GatewayUrl(cid) \o <<"?img-width=300", "&img-height=300", "&img-fit=cover">>
    ELSE GatewayUrl(cid)

\* the UploadedFile record uploadFile builds (description left undefined)
UploadedFile(file, cid, time) ==
    [id |-> <<cid, "-">> \o NumberToString(time), name |-> file.name,
     size |-> file.size, type |-> file.type, cid |-> cid, uploadedAt |-> time,
     gatewayUrl |-> GatewayUrl(cid), thumbnailUrl |-> ThumbnailUrl(file, cid)]

\* JSON.stringify of one record: the Date becomes a string, numbers digits
JSONstringifyFile(f) ==
    <<"{", "\"id\":">> \o JSONstring(f.id)
    \o <<",", "\"name\":">> \o JSONstring(<<f.name>>)
    \o <<",", "\"size\":">> \o NumberToString(f.size)
    \o <<",", "\"type\":">> \o JSONstring(f.type)
    \o <<",", "\"cid\":">> \o JSONstring(<<f.cid>>)
    \o <<",", "\"uploadedAt\":">> \o JSONstring(<<"T">> \o NumberToString(f.uploadedAt))
    \o <<",", "\"gatewayUrl\":">> \o JSONstring(f.gatewayUrl)
    \o <<",", "\"thumbnailUrl\":">> \o JSONstring(f.thumbnailUrl)
    \o <<"}">>

RECURSIVE JSONjoin(_)
JSONjoin(texts) ==
    IF texts = <<>> THEN <<>>
    ELSE IF Len(texts) = 1 THEN texts[1]
    ELSE texts[1] \o <<",">> \o JSONjoin(Tail(texts))

JSONstringifyUploads(files) ==
    <<"[">> \o JSONjoin([i \in 1..Len(files) |-> JSONstringifyFile(files[i])])
    \o <<"]">>

\* the records a previous run of the hook can have left in storage
StoredLists ==
    { <<>>, <<UploadedFile(CHOOSE f \in Files : f.name = "n.txt", "bafyB", 0)>>,
      <<UploadedFile(CHOOSE f \in Files : f.name = "a.png", "bafyA", 0),
        UploadedFile(CHOOSE f \in Files : f.name = "n.txt", "bafyB", 0)>> }

\* JSON.parse(saved).map(f => ({...f, uploadedAt: new Date(f.uploadedAt)}))
JSONparseUploads(text) ==
    IF \E x \in StoredLists : JSONstringifyUploads(x) = text
    THEN [ok |-> TRUE,
          value |-> CHOOSE x \in StoredLists : JSONstringifyUploads(x) = text]
    ELSE [ok |-> FALSE, value |-> <<>>]


----------------------------------------------------------------------------
(* Capabilities of a parsed proof *)

CapBlobAdd == <<"s","p","a","c","e","/","b","l","o","b","/","a","d","d">>
CapIndexAdd == <<"s","p","a","c","e","/","i","n","d","e","x","/","a","d","d">>
CapUploadAdd == <<"u","p","l","o","a","d","/","a","d","d">>
CapUploadList == <<"u","p","l","o","a","d","/","l","i","s","t">>

requiredCapabilities == <<CapBlobAdd, CapIndexAdd, CapUploadAdd>>

ResourceS1 == <<"d","i","d",":","k","e","y",":","s","1">>
\* a resource whose URI happens to contain the text upload/add
ResourceWeb == <<"w","e","b",":","x","/">> \o CapUploadAdd

\* an entry of parsedProof.capabilities: an object {can, with}, or a string
CapObject(can, with) == [isString |-> FALSE, can |-> can, with |-> with]
CapString(str) == [isString |-> TRUE, can |-> str, with |-> <<>>]

\* JSON.stringify of a capability object
JSONstringifyCap(c) ==
    <<"{", "\"", "c","a","n", "\"", ":">> \o JSONstring(c.can)
    \o <<",", "\"", "w","i","t","h", "\"", ":">> \o JSONstring(c.with) \o <<"}">>

\* the test applied to each entry c for a required name cap:
\* typeof c === 'string' ? c.includes(cap) : JSON.stringify(c).includes(cap)
CapMatches(c, cap) ==
    IF c.isString THEN Includes(c.can, cap)
    ELSE Includes(JSONstringifyCap(c), cap)

\* requiredCapabilities.filter(cap => !capabilities.some(...))
missingCapabilities(capabilities) ==
    SelectSeq(requiredCapabilities,
              LAMBDA cap : ~\E i \in 1..Len(capabilities) :
                                CapMatches(capabilities[i], cap))

\* the capability lists the SDK's Proof.parse can hand back
CapabilityLists ==
    { <<CapObject(CapBlobAdd, ResourceS1), CapObject(CapIndexAdd, ResourceS1),
        CapObject(CapUploadAdd, ResourceS1)>>,
      <<CapObject(CapBlobAdd, ResourceS1), CapObject(CapIndexAdd, ResourceS1)>>,
      <<CapObject(CapUploadAdd, ResourceS1)>>,
      <<>>,
      <<CapString(CapUploadAdd), CapString(CapIndexAdd), CapString(CapBlobAdd)>>,
      <<CapObject(CapBlobAdd, ResourceS1), CapObject(CapIndexAdd, ResourceS1),
        CapObject(CapUploadList, ResourceWeb)>>,
      <<CapObject(CapBlobAdd, ResourceS1), CapObject(CapIndexAdd, ResourceS1),
        CapString(CapUploadAdd \o <<"-","o","f","f">>)>> }

\* the space lists a client enumerates after importing a proof
DelegatedSpaceLists ==
    { <<>>,
      <<SpaceObject(S1, "docs")>>,
      <<SpaceObject(S2, "docs")>>,
      <<SpaceObject(S1, "docs"), SpaceObject(S2, "docs")>>,
      <<SpaceObject(S2, "docs"), SpaceObject(S1, "docs")>> }
\* the check's result for each grant Proof.parse can hand back
missingOf == [capabilities \in CapabilityLists |-> missingCapabilities(capabilities)]

\* a parsed proof: its capabilities and the spaces importing it makes known
ParsedProofs == [capabilities : CapabilityLists, spaces : DelegatedSpaceLists]

----------------------------------------------------------------------------
(* Error messages *)

Msg(t) == [text |-> t, missing |-> <<>>, fn |-> ""]

ProofTooShort == Msg("Invalid delegation proof. Proof too short or missing.")
InvalidKeyFormat ==
    Msg("Invalid private key format. Should start with \"Mg\" and be base64 encoded.")
\* missing holds the names joined with ', ' in the message
MissingCapabilitiesError(missing) ==
    [text |-> "Delegation proof missing required capabilities: ",
     missing |-> missing, fn |-> ""]
NoSpaceAvailable == Msg("No space available.")
InvalidEmail == Msg("Please enter a valid email address")
\* an error thrown by the SDK call fn
SdkError(fn) == [text |-> "SDK error", missing |-> <<>>, fn |-> fn]


----------------------------------------------------------------------------
(* Inputs of the delegation bootstrap *)

MinProofLen == 100

\* The keys and proofs given to the bootstrap.  A config names its key and
\* its proof; KeyText and ProofText are the strings.
\* keys: padded with whitespace, with stray characters inside, with a wrong
\* prefix, with the prefix split by a blank, empty
Keys == {"padded", "stray", "wrongPrefix", "split", "empty"}
KeyText(k) ==
    CASE k = "padded" -> <<" ", "M","g","A","b", "\n">>
      [] k = "stray" -> <<"M","g","-","A"," ","b">>
      [] k = "wrongPrefix" -> <<"X","g","A">>
      [] k = "split" -> <<"M"," ","g">>
      [] k = "empty" -> <<>>

\* proofs: long enough (MinProofLen + 1 characters), long enough once the
\* stray characters are removed, one character short, long enough only with
\* its stray characters, empty
Proofs == {"long", "stray", "short", "shortStray", "empty"}
ProofText(p) ==
    CASE p = "long" -> Rep("A", MinProofLen + 1)
      [] p = "stray" -> Rep("A", 50) \o <<" ", "\n">> \o Rep("B", MinProofLen - 50)
      [] p = "short" -> Rep("A", MinProofLen - 1)
      [] p = "shortStray" -> Rep("A", MinProofLen - 1) \o <<"!", "\n">>
      [] p = "empty" -> <<>>

\* delegationConfig.spaceDid; "" stands for an absent (or empty) spaceDid
Requested == {"", S1, S2, S3}

DelegationConfigs == [key : Keys, proof : Proofs, spaceDid : Requested]
NoConfig == [key |-> "empty", proof |-> "empty", spaceDid |-> ""]

Emails == { GoodEmail, <<"a","b">>, <<"a"," ","@","b",".","c">>, <<"a","@","b">>, <<>> }

\* /^[^\s@]+@[^\s@]+\.[^\s@]+$/.test(e)
EmailRegexTest(e) ==
    LET Plain(a, b) == a <= b /\ \A k \in a..b : ~IsWhitespace(e[k]) /\ e[k] # "@"
    IN  \E i, j \in 1..Len(e) :
            /\ e[i] = "@" /\ e[j] = "." /\ i < j
            /\ Plain(1, i - 1) /\ Plain(i + 1, j - 1) /\ Plain(j + 1, Len(e))

----------------------------------------------------------------------------
(* Suspended calls and returned calls *)

\* a call suspended at an await: its operation, where it waits, what it holds
Call(op, pc) ==
    [op |-> op, pc |-> pc, email |-> <<>>, key |-> "empty", proof |-> "empty",
     spaceDid |-> "", client |-> Null, session |-> DefaultSession]

Suspended(c) == calls' = calls (+) SetToBag({c})
Resumed(c) == calls' = calls (-) SetToBag({c})
CanSuspend == BagCardinality(calls) < MaxCalls

\* what a run of the delegation bootstrap did with the SDK
NoTrace ==
    [invoked |-> <<>>, signerArg |-> Null, proofArg |-> Null,
     capabilities |-> Null, spaces |-> <<>>, activated |-> "", saved |-> FALSE]

Returned(op, ok, err, cfg, trace) ==
    Some([op |-> op, ok |-> ok, error |-> err, config |-> cfg, trace |-> trace])

----------------------------------------------------------------------------
(* Session store *)

\* a save that sets the state and forgets the store
saveSessionInMemory(session) ==
    /\ userSession' = session
    /\ UNCHANGED localStorage

saveSession(session) ==
    /\ localStorage' =
         [localStorage EXCEPT !.session = Some(JSONstringifySession(session))]
    /\ userSession' = session

\* a clear that resets the state and leaves the stored entry in place
clearSessionInMemory ==
    /\ userSession' = DefaultSession
    /\ UNCHANGED localStorage

clearSession ==
    /\ localStorage' = [localStorage EXCEPT !.session = Null]
    /\ userSession' = DefaultSession


----------------------------------------------------------------------------
(* Construction and start-up *)

EmptyMap == <<>>

StoredUploadTexts ==
    {Null} \cup { Some(JSONstringifyUploads(l)) : l \in StoredLists }

\* lib/api.ts at rest: nothing stored, nothing called
NoEntries == [delegation |-> Null, spaceInfo |-> Null]
\* getDelegationWithRetry: its arguments and locals, the outcomes of the
\* requests it made and the waits it took, and how it ended
NoRetry ==
    [pc |-> "idle", maxRetries |-> 0, delay |-> 0, attempt |-> 0,
     lastError |-> Null, outcomes |-> <<>>, waits |-> <<>>, result |-> Null]
\* the arguments of a utils call; id is the identifier a wrapped input wraps
NoInput == [fn |-> "", args |-> <<>>, id |-> Null]
\* server.js before its first request, with nothing in its environment
NoEnv == [privateKey |-> <<>>, proofString |-> <<>>]
NoServer ==
    [env |-> NoEnv, storachaClient |-> 0, clients |-> <<>>, requests |-> EmptyBag,
     initialized |-> FALSE, event |-> Null]
LibIdle ==
    /\ delegationStorage = NoEntries /\ storageReturn = Null
    /\ utilsInput = NoInput /\ utilsReturn = Null
    /\ retry = NoRetry
    /\ server = NoServer

InitState ==
    /\ app \in {"dapp", "expert"}
    /\ mounted = "no"
    /\ client = Null /\ space = Null /\ spaceDid = Null
    /\ isInitializing = FALSE /\ isConnected = FALSE /\ error = Null
    /\ isUploading = FALSE
    /\ userSession = DefaultSession
    /\ uploadedFiles = <<>> /\ uploadProgress = EmptyMap
    /\ abortControllers = {} /\ timers = EmptyBag /\ now = 0
    /\ calls = EmptyBag /\ uploads = EmptyBag /\ started = 0 /\ lastReturn = Null
    /\ b64out = Null

\* first run: no session in storage; the dApp may find uploads of an earlier run
Init ==
    /\ InitState
    /\ localStorage \in [session : {Null}, uploads : StoredUploadTexts]
    /\ app = "expert" => localStorage.uploads = Null
    /\ b64in = <<>>
    /\ LibIdle

\* a JavaScript string used as a condition: null and '' are falsy
Truthy(saved) == ~IsNull(saved) /\ Val(saved) # <<>>

\* the useState initialisers of the hook
Mount ==
    /\ mounted = "no"
    /\ LET savedU == localStorage.uploads
           savedS == localStorage.session
           parsedU == IF app = "dapp" /\ Truthy(savedU)
                      THEN JSONparseUploads(Val(savedU))
                      ELSE [ok |-> TRUE, value |-> <<>>]
           parsedS == IF Truthy(savedS) THEN JSONparseSession(Val(savedS))
                      ELSE [ok |-> TRUE, value |-> DefaultSession]
       IN  IF parsedU.ok /\ parsedS.ok
           THEN /\ mounted' = "rendered"
                /\ uploadedFiles' = parsedU.value
                /\ userSession' = parsedS.value
           ELSE /\ mounted' = "crashed"
                /\ UNCHANGED <<uploadedFiles, userSession>>
    /\ UNCHANGED <<app, localStorage, client, space, spaceDid, isInitializing,
                   isConnected, error, uploadProgress, abortControllers, timers,
                   now, calls, uploads, started, lastReturn, b64in, b64out, libVars, isUploading>>

----------------------------------------------------------------------------
(* loginWithEmail (dApp hook) *)

CreatedSpace == SpaceObject("did:key:z6MkNew", DEFAULT_SPACE_NAME)

\* the synchronous part of loginWithEmail, up to its first await
LoginWithEmailBegin(userEmail) ==
    /\ IF userEmail = <<>> \/ ~EmailRegexTest(userEmail)
       THEN /\ error' = Some(InvalidEmail)
            /\ isConnected' = FALSE
            /\ isInitializing' = FALSE
            /\ lastReturn' = Returned("loginWithEmail", FALSE, Some(InvalidEmail),
                                      NoConfig, NoTrace)
            /\ UNCHANGED calls
       ELSE /\ CanSuspend
            /\ isInitializing' = TRUE
            /\ error' = Null
            /\ Suspended([Call("loginWithEmail", "create") EXCEPT !.email = userEmail])
            /\ lastReturn' = Null
            /\ UNCHANGED isConnected
    /\ UNCHANGED <<app, localStorage, client, space, spaceDid, userSession,
                   uploadedFiles, uploadProgress, abortControllers, timers, now,
                   uploads, started, b64in, b64out, libVars, isUploading>>

loginWithEmail ==
    /\ mounted = "yes" /\ app = "dapp"
    /\ \E userEmail \in Emails : LoginWithEmailBegin(userEmail)
    /\ UNCHANGED mounted

\* what the SDK does during one email login
\* (one outcome stands for those that differ only in what is never reached)
EmailLoginOutcomes ==
    Enumerated({ o \in [failAt : {"none", "create", "login", "plan.wait"}, known : SpaceLists,
             innerThrows : BOOLEAN, fallbackThrows : BOOLEAN] :
        /\ o.failAt # "none" => o.known = <<>> /\ ~o.innerThrows
        /\ ~o.innerThrows => ~o.fallbackThrows })

\* the space the space-selection block ends with; Null when it throws
EmailLoginSpace(o) ==
    LET existingSpace ==
            Find(o.known, { i \in 1..Len(o.known) :
                                \/ o.known[i].name = DEFAULT_SPACE_NAME
                                \/ DidIncludesSpace(o.known[i].did) })
    IN  IF o.innerThrows
        THEN (IF o.fallbackThrows THEN Null ELSE Some(CreatedSpace))
        ELSE IF ~IsNull(existingSpace) THEN existingSpace ELSE Some(CreatedSpace)

\* the rest of loginWithEmail: the SDK calls, then success or the catch block
loginWithEmailComplete ==
    /\ mounted = "yes"
    /\ \E c \in BagToSet(calls), o \in EmailLoginOutcomes :
        /\ c.op = "loginWithEmail"
        /\ Resumed(c)
        /\ LET storachaSpace == EmailLoginSpace(o)
               failed == o.failAt # "none" \/ IsNull(storachaSpace)
               err == SdkError(IF o.failAt # "none" THEN o.failAt ELSE "createSpace")
               session == [email |-> c.email, isLoggedIn |-> TRUE,
                           method |-> Some("email"),
                           spaceDid |-> Val(storachaSpace).did,
                           agentDid |-> AgentDid]
               storachaClient ==
                   [agent |-> AgentDid,
                    spaces |-> IF Val(storachaSpace) = CreatedSpace
                               THEN Append(o.known, CreatedSpace) ELSE o.known,
                    current |-> Val(storachaSpace).did]
           IN  IF failed
               THEN /\ error' = Some(err)
                    /\ isConnected' = FALSE
                    /\ lastReturn' = Returned("loginWithEmail", FALSE, Some(err),
                                              NoConfig, NoTrace)
                    /\ UNCHANGED <<localStorage, userSession, client, space>>
               ELSE /\ saveSession(session)
                    /\ client' = Some(storachaClient)
                    /\ space' = storachaSpace
                    /\ isConnected' = TRUE
                    /\ lastReturn' = Returned("loginWithEmail", TRUE, Null,
                                              NoConfig, NoTrace)
                    /\ UNCHANGED error
        /\ isInitializing' = FALSE
    /\ UNCHANGED <<app, mounted, spaceDid, uploadedFiles, uploadProgress,
                   abortControllers, timers, now, uploads, started, b64in, b64out, libVars, isUploading>>

----------------------------------------------------------------------------
(* logout *)

logout ==
    /\ mounted = "yes"
    /\ client' = Null
    /\ space' = Null
    /\ IF app = "dapp"
       THEN isConnected' = FALSE /\ uploadProgress' = EmptyMap /\ UNCHANGED spaceDid
       ELSE spaceDid' = Null /\ UNCHANGED <<isConnected, uploadProgress>>
    /\ clearSession
    /\ error' = Null
    /\ lastReturn' = Returned("logout", TRUE, Null, NoConfig, NoTrace)
    /\ UNCHANGED <<app, mounted, isInitializing, uploadedFiles, abortControllers,
                   timers, now, calls, uploads, started, b64in, b64out, libVars, isUploading>>


----------------------------------------------------------------------------
(* Delegation bootstrap: loginWithDelegation (dApp), setupDelegation (expert) *)

DelegationOp == IF app = "dapp" THEN "loginWithDelegation" ELSE "setupDelegation"

\* the SDK calls of the bootstrap, in the order the code makes them
Stages == <<"Signer.parse", "create", "Proof.parse", "addSpace", "spaces",
            "setCurrentSpace", "saveSession">>

\* what the SDK does during one bootstrap: the call that throws, if any, and
\* the proof that Proof.parse hands back (one outcome stands for those that
\* differ only in what the run never reaches)
NoProof == [capabilities |-> <<>>, spaces |-> <<>>]
DelegationOutcomes ==
    Enumerated({ o \in [failAt : {"none", "Signer.parse", "create", "Proof.parse",
                       "addSpace", "spaces", "setCurrentSpace"},
             proof : ParsedProofs] :
        /\ o.failAt \in {"Signer.parse", "create", "Proof.parse"} => o.proof = NoProof
        /\ o.failAt = "none" /\ missingCapabilities(o.proof.capabilities) # <<>>
             => o.proof.spaces = <<>>
        /\ o.failAt \in {"addSpace", "spaces", "setCurrentSpace"}
             => missingCapabilities(o.proof.capabilities) = <<>>
        /\ o.failAt \in {"addSpace", "spaces"} => o.proof.spaces = <<>> })

\* a validation that checks the proof and lets every key through
ValidationOfProofOnly(cfg) ==
    LET cleanProof == cleanBase64(ProofText(cfg.proof))
    IN  IF cleanProof = <<>> \/ Len(cleanProof) < MinProofLen
        THEN Some(ProofTooShort)
        ELSE Null

\* the validation of the cleaned inputs: the error thrown, or Null
ValidationError(cfg) ==
    LET cleanProof == cleanBase64(ProofText(cfg.proof))
        cleanKey == Trim(KeyText(cfg.key))
    IN  IF cleanProof = <<>> \/ Len(cleanProof) < MinProofLen
        THEN Some(ProofTooShort)
        ELSE IF cleanKey = <<>> \/ ~StartsWith(cleanKey, <<"M", "g">>)
        THEN Some(InvalidKeyFormat)
        ELSE Null

\* a selection that ignores the request: always the first enumerated space
SelectFirstSpace(spaces, requested) ==
    IF Len(spaces) > 0 THEN Some(spaces[1]) ELSE Null

\* the choice of currentSpace among the enumerated spaces
SelectSpace(spaces, requested) ==
    LET first == IF Len(spaces) > 0 THEN Some(spaces[1]) ELSE Null
        found == Find(spaces, { i \in 1..Len(spaces) : spaces[i].did = requested })
    IN  IF requested # ""
        THEN (IF ~IsNull(found) THEN found ELSE first)
        ELSE first

\* the inner try block, for a config that passed validation, under outcome o
DelegationRun(cfg, o) ==
    LET cleanProof == cleanBase64(ProofText(cfg.proof))
        cleanKey == Trim(KeyText(cfg.key))
        capabilities == o.proof.capabilities
        missing == missingOf[capabilities]
        spaces == o.proof.spaces
        currentSpace == SelectSpace(spaces, cfg.spaceDid)
        Trace(n, parsed, listed, did) ==
            [invoked |-> SubSeq(Stages, 1, n), signerArg |-> Some(cleanKey),
             proofArg |-> IF n >= 3 THEN Some(cleanProof) ELSE Null,
             capabilities |-> IF parsed THEN Some(capabilities) ELSE Null,
             spaces |-> IF listed THEN spaces ELSE <<>>,
             activated |-> did, saved |-> n = 7]
        Throw(err, n, parsed, listed, did) ==
            [ok |-> FALSE, error |-> Some(err),
             trace |-> Trace(n, parsed, listed, did),
             client |-> Null, space |-> Null]
    IN  IF o.failAt = "Signer.parse"
          THEN Throw(SdkError("Signer.parse"), 1, FALSE, FALSE, "")
        ELSE IF o.failAt = "create"
          THEN Throw(SdkError("create"), 2, FALSE, FALSE, "")
        ELSE IF o.failAt = "Proof.parse"
          THEN Throw(SdkError("Proof.parse"), 3, FALSE, FALSE, "")
        ELSE IF Len(missing) > 0
          THEN Throw(MissingCapabilitiesError(missing), 3, TRUE, FALSE, "")
        ELSE IF o.failAt = "addSpace"
          THEN Throw(SdkError("addSpace"), 4, TRUE, FALSE, "")
        ELSE IF o.failAt = "spaces"
          THEN Throw(SdkError("spaces"), 5, TRUE, FALSE, "")
        ELSE IF IsNull(currentSpace)
          THEN Throw(NoSpaceAvailable, 5, TRUE, TRUE, "")
        ELSE IF o.failAt = "setCurrentSpace"
          THEN Throw(SdkError("setCurrentSpace"), 6, TRUE, TRUE,
                     Val(currentSpace).did)
        ELSE [ok |-> TRUE, error |-> Null,
              trace |-> Trace(7, TRUE, TRUE, Val(currentSpace).did),
              client |-> Some([agent |-> AgentDid, spaces |-> spaces,
                               current |-> Val(currentSpace).did]),
              space |-> currentSpace]

\* the synchronous part of the bootstrap: clean, validate, reach the first await
DelegationBegin(cfg) ==
    LET err == ValidationError(cfg)
    IN  /\ mounted = "yes"
        /\ IF ~IsNull(err)
           THEN /\ error' = err
                /\ isConnected' = (IF app = "dapp" THEN FALSE ELSE isConnected)
                /\ isInitializing' = FALSE
                /\ lastReturn' = Returned(DelegationOp, FALSE, err, cfg, NoTrace)
                /\ UNCHANGED calls
           ELSE /\ CanSuspend
                /\ isInitializing' = TRUE
                /\ error' = Null
                /\ Suspended([Call(DelegationOp, "import") EXCEPT
                                !.key = cfg.key, !.proof = cfg.proof,
                                !.spaceDid = cfg.spaceDid])
                /\ lastReturn' = Null
                /\ UNCHANGED isConnected
        /\ UNCHANGED <<app, mounted, localStorage, client, space, spaceDid,
                       userSession, uploadedFiles, uploadProgress,
                       abortControllers, timers, now, uploads, started, b64in, b64out, libVars, isUploading>>

\* a session that keeps the key it was set up with
SessionKeepingKey(cfg, currentSpace) ==
    [email |-> Trim(KeyText(cfg.key)), isLoggedIn |-> TRUE,
     method |-> Some("delegation"), spaceDid |-> currentSpace.did,
     agentDid |-> AgentDid]

\* the session the bootstrap saves, built with the config and the selected
\* space in scope
BootstrapSession(cfg, currentSpace) ==
    [email |-> DelegationEmail, isLoggedIn |-> TRUE,
     method |-> Some("delegation"), spaceDid |-> currentSpace.did,
     agentDid |-> AgentDid]

\* the rest of the bootstrap: the inner try block, then success, catch, finally
DelegationComplete(c, o) ==
    LET cfg == [key |-> c.key, proof |-> c.proof, spaceDid |-> c.spaceDid]
        run == DelegationRun(cfg, o)
        session == BootstrapSession(cfg, Val(run.space))
    IN  /\ mounted = "yes"
        /\ Resumed(c)
        /\ IF run.ok
           THEN /\ saveSession(session)
                /\ client' = run.client
                /\ space' = run.space
                /\ IF app = "dapp"
                   THEN isConnected' = TRUE /\ UNCHANGED spaceDid
                   ELSE spaceDid' = Some(Val(run.space).did) /\ UNCHANGED isConnected
                /\ UNCHANGED error
           ELSE /\ error' = run.error
                /\ isConnected' = (IF app = "dapp" THEN FALSE ELSE isConnected)
                /\ UNCHANGED <<localStorage, userSession, client, space, spaceDid>>
        /\ isInitializing' = FALSE
        /\ lastReturn' = Returned(c.op, run.ok, run.error, cfg, run.trace)
        /\ UNCHANGED <<app, mounted, uploadedFiles, uploadProgress,
                       abortControllers, timers, now, uploads, started, b64in, b64out, libVars, isUploading>>

loginWithDelegation(configs) ==
    app = "dapp" /\ \E cfg \in configs : DelegationBegin(cfg)

loginWithDelegationComplete(outcomes) ==
    \E c \in BagToSet(calls), o \in outcomes :
        c.op = "loginWithDelegation" /\ DelegationComplete(c, o)

setupDelegation(configs) ==
    app = "expert" /\ \E cfg \in configs : DelegationBegin(cfg)

setupDelegationComplete(outcomes) ==
    \E c \in BagToSet(calls), o \in outcomes :
        c.op = "setupDelegation" /\ DelegationComplete(c, o)

\* Input sets.  The capability check and the choice of the space are explored
\* with one valid key and proof, every requested space and every SDK outcome;
\* the validation with every key and proof; the session life cycle with a
\* valid and an invalid config and an SDK that works or fails to create the
\* client.
BootConfigs ==
    Enumerated({ cfg \in DelegationConfigs : cfg.key = "padded" /\ cfg.proof = "stray" })

InputConfigs == Enumerated({ cfg \in DelegationConfigs : cfg.spaceDid = "" })

LifecycleConfigs ==
    Enumerated({ cfg \in DelegationConfigs :
        /\ cfg.proof \in {"stray", "empty"} /\ cfg.key = "padded"
        /\ cfg.spaceDid \in {"", S2} })

LifecycleOutcomes ==
    Enumerated({ o \in DelegationOutcomes :
        /\ o.failAt \in {"none", "create"}
        /\ missingCapabilities(o.proof.capabilities) = <<>>
        /\ ~\E i \in 1..Len(o.proof.capabilities) : o.proof.capabilities[i].isString
        /\ Len(o.proof.spaces) > 0 => o.proof.spaces[1].did = S1 })

----------------------------------------------------------------------------
(* initializeClient and refreshSpaces (expert hook), and the start-up effects *)

\* a logged-in session that names no method
SessionWithoutMethod(did) ==
    [email |-> DelegationEmail, isLoggedIn |-> TRUE,
     method |-> Null, spaceDid |-> did, agentDid |-> AgentDid]

DelegatedSession(did) ==
    [email |-> DelegationEmail, isLoggedIn |-> TRUE,
     method |-> Some("delegation"), spaceDid |-> did, agentDid |-> AgentDid]

\* the condition of the expert hook's effect, on the state a step leaves:
\* it runs initializeClient when userSession or client changed into
\* a delegated, logged-in session without a client
EffectFires ==
    /\ app = "expert"
    /\ userSession' # userSession \/ client' # client
    /\ userSession'.isLoggedIn /\ userSession'.method = Some("delegation")
    /\ IsNull(client')

\* the synchronous part of initializeClient, up to await create()
InitializeClientBegin ==
    /\ CanSuspend
    /\ isInitializing' = TRUE
    /\ error' = Null
    /\ Suspended(Call("initializeClient", "create"))
    /\ lastReturn' = Null
    /\ UNCHANGED <<app, localStorage, client, space, spaceDid, isConnected,
                   userSession, uploadedFiles, uploadProgress, abortControllers,
                   timers, now, uploads, started, b64in, b64out, libVars, isUploading>>

initializeClient ==
    mounted = "yes" /\ app = "expert" /\ InitializeClientBegin /\ UNCHANGED mounted

\* create() returned or threw: setClient, then on to spaces()
initializeClientCreated ==
    /\ mounted = "yes"
    /\ \E c \in BagToSet(calls), throws \in BOOLEAN, known \in SpaceLists :
        /\ c.op = "initializeClient" /\ c.pc = "create"
        /\ throws => known = <<>>
        /\ IF throws
           THEN /\ calls' = calls (-) SetToBag({c})
                /\ error' = Some(SdkError("create"))
                /\ isInitializing' = FALSE
                /\ lastReturn' = Returned("initializeClient", FALSE,
                                          Some(SdkError("create")), NoConfig, NoTrace)
                /\ UNCHANGED client
           ELSE /\ calls' = (calls (-) SetToBag({c})) (+)
                    SetToBag({[c EXCEPT !.pc = "spaces",
                                        !.client = Some([NewClient EXCEPT !.spaces = known])]})
                /\ client' = Some([NewClient EXCEPT !.spaces = known])
                /\ lastReturn' = Null
                /\ UNCHANGED <<error, isInitializing>>
    /\ UNCHANGED <<app, mounted, localStorage, space, spaceDid, isConnected,
                   userSession, uploadedFiles, uploadProgress, abortControllers,
                   timers, now, uploads, started, b64in, b64out, libVars, isUploading>>

\* spaces() and setCurrentSpace() returned or threw: the rest of initializeClient
initializeClientFinish ==
    /\ mounted = "yes"
    /\ \E c \in BagToSet(calls), failAt \in {"none", "spaces", "setCurrentSpace"} :
        /\ c.op = "initializeClient" /\ c.pc = "spaces"
        /\ LET spaces == Val(c.client).spaces
               found == failAt = "none" /\ Len(spaces) > 0
               failed == failAt = "spaces"
                         \/ (failAt = "setCurrentSpace" /\ Len(spaces) > 0)
           IN  /\ failAt = "setCurrentSpace" => Len(spaces) > 0
               /\ IF found
                  THEN /\ space' = Some(spaces[1])
                       /\ spaceDid' = Some(spaces[1].did)
                       /\ saveSession(DelegatedSession(spaces[1].did))
                       /\ client' = IF client = c.client
                                    THEN Some([Val(client) EXCEPT !.current = spaces[1].did])
                                    ELSE client
                  ELSE UNCHANGED <<space, spaceDid, localStorage, userSession, client>>
               /\ lastReturn' = Returned("initializeClient", ~failed,
                                         IF failed THEN Some(SdkError(failAt)) ELSE Null,
                                         NoConfig, NoTrace)
               /\ IF EffectFires
                  THEN /\ calls' = (calls (-) SetToBag({c})) (+)
                                   SetToBag({Call("initializeClient", "create")})
                       /\ isInitializing' = TRUE
                       /\ error' = Null
                  ELSE /\ calls' = calls (-) SetToBag({c})
                       /\ isInitializing' = FALSE
                       /\ error' = IF failed THEN Some(SdkError(failAt)) ELSE error
    /\ UNCHANGED <<app, mounted, isConnected, uploadedFiles, uploadProgress,
                   abortControllers, timers, now, uploads, started, b64in, b64out, libVars, isUploading>>

\* refreshSpaces up to await client.spaces(): it holds the client and the
\* userSession of the render that created it
refreshSpaces ==
    /\ mounted = "yes" /\ app = "expert"
    /\ IF IsNull(client)
       THEN /\ lastReturn' = Returned("refreshSpaces", TRUE, Null, NoConfig, NoTrace)
            /\ UNCHANGED calls
       ELSE /\ CanSuspend
            /\ Suspended([Call("refreshSpaces", "spaces") EXCEPT
                            !.client = client, !.session = userSession])
            /\ lastReturn' = Null
    /\ UNCHANGED <<app, mounted, localStorage, client, space, spaceDid,
                   isInitializing, isConnected, error, userSession, uploadedFiles,
                   uploadProgress, abortControllers, timers, now, uploads, started,
                   b64in, b64out, libVars, isUploading>>

refreshSpacesComplete ==
    /\ mounted = "yes"
    /\ \E c \in BagToSet(calls), throws \in BOOLEAN :
        /\ c.op = "refreshSpaces"
        /\ LET spaces == Val(c.client).spaces
           IN  /\ IF throws
                  THEN UNCHANGED <<space, spaceDid, localStorage, userSession, client>>
                  ELSE IF Len(spaces) > 0
                  THEN /\ space' = Some(spaces[1])
                       /\ spaceDid' = Some(spaces[1].did)
                       /\ saveSession([c.session EXCEPT !.spaceDid = spaces[1].did])
                       /\ client' = IF client = c.client
                                    THEN Some([Val(client) EXCEPT !.current = spaces[1].did])
                                    ELSE client
                  ELSE /\ space' = Null
                       /\ spaceDid' = Null
                       /\ UNCHANGED <<localStorage, userSession, client>>
               /\ lastReturn' = Returned("refreshSpaces", TRUE, Null, NoConfig, NoTrace)
               /\ IF EffectFires
                  THEN /\ calls' = (calls (-) SetToBag({c})) (+)
                                   SetToBag({Call("initializeClient", "create")})
                       /\ isInitializing' = TRUE
                       /\ error' = Null
                  ELSE /\ calls' = calls (-) SetToBag({c})
                       /\ UNCHANGED <<isInitializing, error>>
    /\ UNCHANGED <<app, mounted, isConnected, uploadedFiles, uploadProgress,
                   abortControllers, timers, now, uploads, started, b64in, b64out, libVars, isUploading>>

\* a reconnect for every session of method email, logged in or not
autoConnectForEmailMethod ==
    userSession.method = Some("email") /\ userSession.email # <<>>

\* the condition of autoConnect
autoConnectDue ==
    /\ userSession.isLoggedIn
    /\ userSession.method = Some("email")
    /\ userSession.email # <<>>

\* the effects that run after the first render: autoConnect (dApp),
\* initializeFromSession (expert)
MountEffects ==
    /\ mounted = "rendered"
    /\ mounted' = "yes"
    /\ IF app = "dapp" /\ autoConnectDue
       THEN LoginWithEmailBegin(userSession.email)
       ELSE IF app = "expert" /\ userSession.isLoggedIn
               /\ userSession.method = Some("delegation") /\ IsNull(client)
       THEN InitializeClientBegin
       ELSE UNCHANGED <<app, localStorage, client, space, spaceDid,
                        isInitializing, isConnected, error, userSession,
                        uploadedFiles, uploadProgress, abortControllers, timers,
                        now, calls, uploads, started, lastReturn, b64in, b64out, libVars, isUploading>>


----------------------------------------------------------------------------
(* Uploads (dApp hook) *)

MaxUploads == 1     \* uploadFile calls that reach the SDK
MaxNow == 1         \* the clock readings Date.now() runs through
MaxPending == 2     \* uploadFile calls that reach the SDK, where they overlap

\* fileId = `${Date.now()}-${file.name}`
FileId(time, file) == [time |-> time, name |-> file.name]

\* what { ...prev[fileId], ... } starts from: the entry, or nothing at all
\* when the map holds none under fileId
Spread(map, fileId) ==
    IF fileId \in DOMAIN map THEN map[fileId]
    ELSE [fileId |-> Null, fileName |-> Null, progress |-> 0, status |-> "",
          bytesUploaded |-> Null, totalBytes |-> Null]

Put(map, fileId, entry) ==
    [k \in DOMAIN map \cup {fileId} |-> IF k = fileId THEN entry ELSE map[k]]

Remove(map, fileId) == [k \in DOMAIN map \ {fileId} |-> map[k]]

PendingEntry(fileId, file) ==
    [fileId |-> Some(fileId), fileName |-> Some(file.name), progress |-> 0,
     status |-> "pending", bytesUploaded |-> Some(0), totalBytes |-> Some(file.size)]

Min(a, b) == IF a < b THEN a ELSE b

NotLoggedIn == Msg("Please login first. Client or space not initialized.")
PermissionDenied == Msg("Upload permission denied")

NoDelegationSetup == Msg("Please setup delegation first. Client or space not initialized.")
UploadFailed == Msg("Upload failed")
NullHasNoMessage == Msg("Cannot read properties of null (reading 'message')")

\* what client.uploadFile rejects with: an Error, an Error whose message names
\* a capability, an Error with an empty message, a string, or null
SdkRejections == {"error", "capability", "noMessage", "string", "null"}

\* the inner catch: the error it throws on.  Reading uploadErr.message of null
\* throws a TypeError in its place
Rethrown(rejection) ==
    CASE rejection = "error" -> [isError |-> TRUE, message |-> Some(SdkError("uploadFile"))]
      [] rejection = "capability" -> [isError |-> TRUE, message |-> Some(PermissionDenied)]
      [] rejection = "noMessage" -> [isError |-> TRUE, message |-> Null]
      [] rejection = "string" -> [isError |-> FALSE, message |-> Null]
      [] rejection = "null" -> [isError |-> TRUE, message |-> Some(NullHasNoMessage)]

\* a catch block that throws the error on
Rejecting(rejection) == [rejects |-> TRUE, error |-> Some(UploadFailed)]

\* the catch block of uploadFile: the result it returns.
\* dApp: err.message || 'Upload failed'
\* expert: err instanceof Error ? err.message : 'Upload failed'
UploadFailure(rejection) ==
    LET err == Rethrown(rejection)
    IN  [rejects |-> FALSE,
         error |-> IF app = "dapp"
                   THEN (IF err.message # Null THEN err.message ELSE Some(UploadFailed))
                   ELSE (IF err.isError
                         THEN (IF err.message = Null THEN Some(Msg("")) ELSE err.message)
                         ELSE Some(UploadFailed))]

\* a call of client.uploadFile that has not settled, with the state of the
\* AbortController of the uploadFile call that made it
PendingUpload(fileId, file) == [fileId |-> fileId, file |-> file, aborted |-> FALSE]

Interval(fileId, file) == [kind |-> "interval", fileId |-> fileId, size |-> file.size]
Timeout(fileId) == [kind |-> "timeout", fileId |-> fileId, size |-> 0]

\* uploadFile (dApp hook) up to await client.uploadFile(file); limit bounds the
\* calls that reach the SDK
UploadFile(limit) ==
    /\ mounted = "yes" /\ app = "dapp"
    /\ \E file \in Files :
        LET fileId == FileId(now, file)
            pending == Put(uploadProgress, fileId, PendingEntry(fileId, file))
        IN  IF IsNull(client) \/ IsNull(space)
            THEN /\ uploadProgress' =
                      Put(pending, fileId,
                          [Spread(pending, fileId) EXCEPT !.status = "error",
                                                          !.progress = 0])
                 /\ error' = Some(NotLoggedIn)
                 /\ abortControllers' = abortControllers \ {fileId}
                 /\ lastReturn' = Returned("uploadFile", FALSE, Some(NotLoggedIn),
                                           NoConfig, NoTrace)
                 /\ UNCHANGED <<timers, uploads, started>>
            ELSE /\ started < limit
                 /\ started' = started + 1
                 /\ abortControllers' = abortControllers \cup {fileId}
                 /\ uploadProgress' =
                      Put(pending, fileId,
                          [Spread(pending, fileId) EXCEPT !.status = "uploading",
                                                          !.progress = 5])
                 /\ timers' = timers (+) SetToBag({Interval(fileId, file)})
                 /\ uploads' = uploads (+) SetToBag({PendingUpload(fileId, file)})
                 /\ lastReturn' = Null
                 /\ UNCHANGED error
    /\ UNCHANGED <<app, mounted, localStorage, client, space, spaceDid,
                   isInitializing, isConnected, userSession, uploadedFiles, now,
                   calls, b64in, b64out, libVars, isUploading>>

uploadFile == UploadFile(MaxUploads)

\* a tick that does not look at the status of the entry
progressTickWhateverStatus ==
    /\ \E t \in BagToSet(timers) :
        /\ t.kind = "interval"
        /\ t.fileId \in DOMAIN uploadProgress
        /\ LET current == uploadProgress[t.fileId]
           IN  /\ current.progress < 90
               /\ uploadProgress' =
                    Put(uploadProgress, t.fileId,
                        [current EXCEPT !.progress = Min(current.progress + 10, 90)])
    /\ lastReturn' = Null
    /\ UNCHANGED <<app, mounted, localStorage, client, space, spaceDid,
                   isInitializing, isConnected, error, userSession, uploadedFiles,
                   abortControllers, timers, now, calls, uploads, started,
                   b64in, b64out, libVars, isUploading>>

\* one run of the setInterval callback of an upload
progressTick ==
    /\ \E t \in BagToSet(timers) :
        /\ t.kind = "interval"
        /\ t.fileId \in DOMAIN uploadProgress
        /\ LET current == uploadProgress[t.fileId]
           IN  /\ current.status = "uploading" /\ current.progress < 90
               /\ uploadProgress' =
                    Put(uploadProgress, t.fileId,
                        [current EXCEPT
                           !.progress = Min(current.progress + 10, 90),
                           !.bytesUploaded = Some((current.progress * t.size) \div 100)])
    /\ lastReturn' = Null
    /\ UNCHANGED <<app, mounted, localStorage, client, space, spaceDid,
                   isInitializing, isConnected, error, userSession, uploadedFiles,
                   abortControllers, timers, now, calls, uploads, started,
                   b64in, b64out, libVars, isUploading>>

\* client.uploadFile resolved: the rest of the try block, then finally
uploadFileSucceeds ==
    /\ app = "dapp"
    /\ \E u \in BagToSet(uploads) :
        LET uploadedFile == UploadedFile(u.file, CidOf(u.file), now)
            updated == <<uploadedFile>> \o uploadedFiles
        IN  /\ uploads' = uploads (-) SetToBag({u})
            /\ timers' = (timers (-) SetToBag({Interval(u.fileId, u.file)}))
                         (+) SetToBag({Timeout(u.fileId)})
            /\ uploadProgress' =
                 Put(uploadProgress, u.fileId,
                     [Spread(uploadProgress, u.fileId) EXCEPT
                        !.status = "completed", !.progress = 100,
                        !.bytesUploaded = Some(u.file.size)])
            /\ uploadedFiles' = updated
            /\ localStorage' =
                 [localStorage EXCEPT !.uploads = Some(JSONstringifyUploads(updated))]
            /\ abortControllers' = abortControllers \ {u.fileId}
            /\ lastReturn' = Returned("uploadFile", TRUE, Null, NoConfig, NoTrace)
    /\ UNCHANGED <<app, mounted, client, space, spaceDid, isInitializing,
                   isConnected, error, userSession, now, calls, started,
                   b64in, b64out, libVars, isUploading>>

\* client.uploadFile rejected: the catch block, then finally
UploadFileFails(rejections) ==
    /\ app = "dapp"
    /\ \E u \in BagToSet(uploads), rejection \in rejections :
        LET result == UploadFailure(rejection)
            err == Val(result.error)
        IN
        /\ uploads' = uploads (-) SetToBag({u})
        /\ uploadProgress' =
             Put(uploadProgress, u.fileId,
                 [Spread(uploadProgress, u.fileId) EXCEPT
                    !.status = "error", !.progress = 0])
        /\ error' = Some(err)
        /\ abortControllers' = abortControllers \ {u.fileId}
        /\ lastReturn' = IF result.rejects
                         THEN Returned("uploadFile rejected", FALSE, Some(err), NoConfig, NoTrace)
                         ELSE Returned("uploadFile", FALSE, Some(err), NoConfig, NoTrace)
    /\ UNCHANGED <<app, mounted, localStorage, client, space, spaceDid,
                   isInitializing, isConnected, userSession, uploadedFiles,
                   timers, now, calls, started, b64in, b64out, libVars, isUploading>>

uploadFileFails == UploadFileFails(SdkRejections)

\* a setTimeout callback that removes an entry from the progress map
removalTimeout ==
    /\ \E t \in BagToSet(timers) :
        /\ t.kind = "timeout"
        /\ timers' = timers (-) SetToBag({t})
        /\ uploadProgress' = Remove(uploadProgress, t.fileId)
    /\ lastReturn' = Null
    /\ UNCHANGED <<app, mounted, localStorage, client, space, spaceDid,
                   isInitializing, isConnected, error, userSession, uploadedFiles,
                   abortControllers, now, calls, uploads, started, b64in, b64out, libVars, isUploading>>

\* controller.abort(): the registered controller is that of the call that
\* set it last, a call that has not been aborted
Aborted(pending, fileId) ==
    LET live == { u \in BagToSet(pending) : u.fileId = fileId /\ ~u.aborted }
    IN  IF live = {} THEN pending
        ELSE LET u == CHOOSE x \in live : TRUE
             IN  (pending (-) SetToBag({u})) (+) SetToBag({[u EXCEPT !.aborted = TRUE]})

cancelUpload ==
    /\ mounted = "yes" /\ app = "dapp"
    /\ \E fileId \in abortControllers \cup DOMAIN uploadProgress :
        IF fileId \in abortControllers
        THEN /\ abortControllers' = abortControllers \ {fileId}
             /\ uploadProgress' =
                  Put(uploadProgress, fileId,
                      [Spread(uploadProgress, fileId) EXCEPT
                         !.status = "error", !.progress = 0])
             /\ timers' = timers (+) SetToBag({Timeout(fileId)})
             /\ uploads' = Aborted(uploads, fileId)
        ELSE UNCHANGED <<abortControllers, uploadProgress, timers, uploads>>
    /\ lastReturn' = Returned("cancelUpload", TRUE, Null, NoConfig, NoTrace)
    /\ UNCHANGED <<app, mounted, localStorage, client, space, spaceDid,
                   isInitializing, isConnected, error, userSession, uploadedFiles,
                   now, calls, started, b64in, b64out, libVars, isUploading>>

clearUploads ==
    /\ mounted = "yes" /\ app = "dapp"
    /\ uploadedFiles' = <<>>
    /\ localStorage' = [localStorage EXCEPT !.uploads = Some(JSONstringifyUploads(<<>>))]
    /\ uploadProgress' = EmptyMap
    /\ abortControllers' = {}
    /\ lastReturn' = Returned("clearUploads", TRUE, Null, NoConfig, NoTrace)
    /\ UNCHANGED <<app, mounted, client, space, spaceDid, isInitializing,
                   isConnected, error, userSession, timers, now, calls, uploads,
                   started, b64in, b64out, libVars, isUploading>>

\* uploadFile (expert hook) up to await client.uploadFile(file)
expertUploadFile ==
    /\ mounted = "yes" /\ app = "expert"
    /\ \E file \in Files :
        IF IsNull(client) \/ IsNull(space)
        THEN /\ lastReturn' = Returned("uploadFile", FALSE, Some(NoDelegationSetup),
                                       NoConfig, NoTrace)
             /\ UNCHANGED <<isUploading, error, uploads, started>>
        ELSE /\ started < MaxUploads
             /\ started' = started + 1
             /\ isUploading' = TRUE
             /\ error' = Null
             /\ uploads' = uploads (+) SetToBag({PendingUpload(FileId(now, file), file)})
             /\ lastReturn' = Null
    /\ UNCHANGED <<app, mounted, localStorage, client, space, spaceDid,
                   isInitializing, isConnected, userSession, uploadedFiles,
                   uploadProgress, abortControllers, timers, now, calls,
                   b64in, b64out, libVars>>

\* client.uploadFile resolved (expert hook): the result, then finally
expertUploadFileSucceeds ==
    /\ app = "expert"
    /\ \E u \in BagToSet(uploads) :
        /\ uploads' = uploads (-) SetToBag({u})
        /\ isUploading' = FALSE
        /\ lastReturn' = Returned("uploadFile", TRUE, Null, NoConfig, NoTrace)
    /\ UNCHANGED <<app, mounted, localStorage, client, space, spaceDid,
                   isInitializing, isConnected, error, userSession, uploadedFiles,
                   uploadProgress, abortControllers, timers, now, calls, started,
                   b64in, b64out, libVars>>

\* client.uploadFile rejected (expert hook): the catch block, then finally
expertUploadFileFails ==
    /\ app = "expert"
    /\ \E u \in BagToSet(uploads), rejection \in SdkRejections :
        LET result == UploadFailure(rejection)
            err == Val(result.error)
        IN
        /\ uploads' = uploads (-) SetToBag({u})
        /\ error' = Some(err)
        /\ isUploading' = FALSE
        /\ lastReturn' = IF result.rejects
                         THEN Returned("uploadFile rejected", FALSE, Some(err), NoConfig, NoTrace)
                         ELSE Returned("uploadFile", FALSE, Some(err), NoConfig, NoTrace)
    /\ UNCHANGED <<app, mounted, localStorage, client, space, spaceDid,
                   isInitializing, isConnected, userSession, uploadedFiles,
                   uploadProgress, abortControllers, timers, now, calls, started,
                   b64in, b64out, libVars>>

\* time passes
clockAdvances ==
    /\ now < MaxNow
    /\ now' = now + 1
    /\ lastReturn' = Null
    /\ UNCHANGED <<app, mounted, localStorage, client, space, spaceDid,
                   isInitializing, isConnected, error, userSession, uploadedFiles,
                   uploadProgress, abortControllers, timers, calls, uploads,
                   started, b64in, b64out, libVars, isUploading>>

----------------------------------------------------------------------------
(* The hooks *)

\* the delegation bootstrap: capability check and choice of the space
NextBoot ==
    \/ Mount
    \/ MountEffects
    \/ loginWithDelegation(BootConfigs)
    \/ loginWithDelegationComplete(DelegationOutcomes)
    \/ setupDelegation(BootConfigs)
    \/ setupDelegationComplete(DelegationOutcomes)
    \/ logout

SpecBoot == Init /\ [][NextBoot]_vars

\* the delegation bootstrap: cleaning and validation of key and proof
NextInput ==
    \/ Mount
    \/ MountEffects
    \/ loginWithDelegation(InputConfigs)
    \/ loginWithDelegationComplete(LifecycleOutcomes)
    \/ setupDelegation(InputConfigs)
    \/ setupDelegationComplete(LifecycleOutcomes)
    \/ logout

SpecInput == Init /\ [][NextInput]_vars

\* the dApp hook with its uploads, logged in by delegation
UploadConfigs == Enumerated({ cfg \in LifecycleConfigs : cfg.proof = "stray" /\ cfg.spaceDid = "" })
UploadOutcomes ==
    Enumerated({ o \in LifecycleOutcomes : o.failAt = "none" /\ Len(o.proof.spaces) = 1 })

NextUpload ==
    \/ Mount
    \/ MountEffects
    \/ loginWithDelegation(UploadConfigs)
    \/ loginWithDelegationComplete(UploadOutcomes)
    \/ logout
    \/ uploadFile
    \/ progressTick
    \/ uploadFileSucceeds
    \/ uploadFileFails
    \/ removalTimeout
    \/ cancelUpload
    \/ clearUploads
    \/ clockAdvances

InitUpload == Init /\ app = "dapp" /\ localStorage.uploads = Null

SpecUpload == InitUpload /\ [][NextUpload]_vars

\* client.uploadFile rejecting with an Error that carries a message
uploadFileFailsWithError == UploadFileFails({"error"})

\* the dApp hook's uploads and logout within one reading of the clock
NextLogout ==
    \/ Mount
    \/ MountEffects
    \/ loginWithDelegation(UploadConfigs)
    \/ loginWithDelegationComplete(UploadOutcomes)
    \/ logout
    \/ uploadFile
    \/ progressTick
    \/ uploadFileSucceeds
    \/ uploadFileFailsWithError
    \/ removalTimeout
    \/ cancelUpload
    \/ clearUploads

SpecLogout == InitUpload /\ [][NextLogout]_vars

\* the dApp hook with uploads that overlap within one reading of the clock
uploadFileConcurrently == UploadFile(MaxPending)

NextConcurrent ==
    \/ Mount
    \/ MountEffects
    \/ loginWithDelegation(UploadConfigs)
    \/ loginWithDelegationComplete(UploadOutcomes)
    \/ uploadFileConcurrently
    \/ progressTick
    \/ uploadFileSucceeds
    \/ uploadFileFails
    \/ removalTimeout
    \/ cancelUpload

SpecConcurrent == InitUpload /\ [][NextConcurrent]_vars

\* the dApp hook's uploads list, on what an earlier run stored
NextUploadsList ==
    \/ Mount
    \/ MountEffects
    \/ loginWithDelegation(UploadConfigs)
    \/ loginWithDelegationComplete(UploadOutcomes)
    \/ logout
    \/ uploadFile
    \/ uploadFileSucceeds
    \/ uploadFileFails
    \/ clearUploads

InitUploadsList == Init /\ app = "dapp"

SpecUploadsList == InitUploadsList /\ [][NextUploadsList]_vars

\* both hooks: login, logout and the calls of uploadFile to their return
NextUploadResult ==
    \/ Mount
    \/ MountEffects
    \/ loginWithDelegation(UploadConfigs)
    \/ loginWithDelegationComplete(UploadOutcomes)
    \/ setupDelegation(UploadConfigs)
    \/ setupDelegationComplete(UploadOutcomes)
    \/ logout
    \/ uploadFile
    \/ uploadFileSucceeds
    \/ uploadFileFails
    \/ expertUploadFile
    \/ expertUploadFileSucceeds
    \/ expertUploadFileFails

InitUploadResult == Init /\ localStorage.uploads = Null

SpecUploadResult == InitUploadResult /\ [][NextUploadResult]_vars

\* the same, where a timer that was set fires and a call of the SDK settles
SpecLogoutFair ==
    /\ SpecLogout
    /\ WF_vars(removalTimeout)
    /\ WF_vars(progressTick)
    /\ WF_vars(uploadFileSucceeds \/ uploadFileFailsWithError)

\* the session life cycle of both hooks
Next ==
    \/ Mount
    \/ MountEffects
    \/ loginWithEmail
    \/ loginWithEmailComplete
    \/ loginWithDelegation(LifecycleConfigs)
    \/ loginWithDelegationComplete(LifecycleOutcomes)
    \/ setupDelegation(LifecycleConfigs)
    \/ setupDelegationComplete(LifecycleOutcomes)
    \/ initializeClient
    \/ initializeClientCreated
    \/ initializeClientFinish
    \/ refreshSpaces
    \/ refreshSpacesComplete
    \/ logout

Spec == Init /\ [][Next]_vars

----------------------------------------------------------------------------
(* Start-up on what an earlier session left in storage *)

\* a text cut short: every proper prefix of it (the empty string included)
Truncations(text) == { SubSeq(text, 1, n) : n \in 0..(Len(text) - 1) }

\* the sessions an earlier run, or an earlier version, can have stored
StoredSessions ==
    { DefaultSession,
      [email |-> GoodEmail, isLoggedIn |-> TRUE, method |-> Some("email"),
       spaceDid |-> S1, agentDid |-> AgentDid],
      [email |-> GoodEmail, isLoggedIn |-> FALSE, method |-> Some("email"),
       spaceDid |-> S1, agentDid |-> AgentDid],
      [email |-> <<>>, isLoggedIn |-> TRUE, method |-> Some("email"),
       spaceDid |-> S1, agentDid |-> AgentDid],
      [email |-> DelegationEmail, isLoggedIn |-> TRUE, method |-> Some("email"),
       spaceDid |-> S1, agentDid |-> AgentDid],
      DelegatedSession(S1) }

\* the value under storacha_session: absent, a saved session, or a cut one
StoredSessionTexts ==
    {Null} \cup { Some(JSONstringifySession(x)) : x \in StoredSessions }
    \cup { Some(t) : t \in UNION { Truncations(JSONstringifySession(x)) : x \in StoredSessions } }

\* the value under storacha_uploads: absent, a saved list, or a cut one
StoredUploadsOrCut ==
    StoredUploadTexts
    \cup { Some(t) : t \in UNION { Truncations(JSONstringifyUploads(l)) : l \in StoredLists } }

InitLoad ==
    /\ InitState
    /\ localStorage \in [session : StoredSessionTexts, uploads : StoredUploadsOrCut]
    /\ app = "expert" => localStorage.uploads = Null
    /\ b64in = <<>>
    /\ LibIdle

NextLoad ==
    \/ Mount
    \/ MountEffects
    \/ loginWithEmailComplete
    \/ initializeClientCreated
    \/ initializeClientFinish

SpecLoad == InitLoad /\ [][NextLoad]_vars

----------------------------------------------------------------------------
(* The backend's cleanBase64 on its own *)

MaxInputLen == 4    \* characters of an input handed to the backend's cleanBase64

\* one character of each kind the function tells apart
InputChars == {"A", "=", " ", "\n", "-"}

RECURSIVE Strings(_)
Strings(n) ==
    IF n = 0 THEN {<<>>}
    ELSE LET shorter == Strings(n - 1)
         IN  shorter \cup { Append(s, c) : s \in shorter, c \in InputChars }

InitBase64 ==
    /\ InitState
    /\ app = "expert"
    /\ localStorage = [session |-> Null, uploads |-> Null]
    /\ b64in \in Strings(MaxInputLen)
    /\ LibIdle

\* cleanBase64(input)
serverClean ==
    /\ b64out = Null
    /\ b64out' = serverCleanBase64(b64in)
    /\ UNCHANGED <<hookVars, b64in, libVars>>

\* cleanBase64 applied to a string it returned
serverCleanAgain ==
    /\ b64out # Null
    /\ b64in' = Val(b64out)
    /\ b64out' = serverCleanBase64(Val(b64out))
    /\ UNCHANGED <<hookVars, libVars>>

NextBase64 ==
    \/ serverClean
    \/ serverCleanAgain

SpecBase64 == InitBase64 /\ [][NextBase64]_vars

----------------------------------------------------------------------------
(* lib/api.ts: storage of the delegation *)

ExpiryBuffer == 300

\* the text under storacha_delegation: '' | a text that is no JSON | the JSON
\* of data; expiresAt is Null when the stored object has no such member
StoredDelegation(kind, expiresAt) ==
    [kind |-> kind,
     data |-> [token |-> "token", expiresAt |-> expiresAt, spaceDid |-> S1]]

ExpiryTimes == {1000, 1001}

StoredDelegations ==
    { StoredDelegation("empty", Null), StoredDelegation("garbage", Null),
      StoredDelegation("json", Null) }
    \cup { StoredDelegation("json", Some(t)) : t \in ExpiryTimes }

\* Date.now(), in milliseconds, around the expiry times and the buffer
ClockReadings ==
    { 699000, 699999, 700000, 700999, 701000, 701001,
      999999, 1000000, 1000999, 1001000, 1001999, 1002000 }

\* Math.floor(Date.now() / 1000)
Seconds(ms) == ms \div 1000

\* what a storage call returned: value is a nullable data object for
\* loadDelegation, a nullable boolean for hasValidDelegation
StorageReturned(op, times, value) ==
    Some([op |-> op, times |-> times, value |-> value])

\* an expiry test that also turns away a delegation expiring this second
ExpiredOrExpiring(data, nowSeconds) ==
    data.expiresAt # Null /\ Val(data.expiresAt) <= nowSeconds

\* data.expiresAt < now (false when expiresAt is undefined)
Expired(data, nowSeconds) ==
    data.expiresAt # Null /\ Val(data.expiresAt) < nowSeconds

\* the result of loadDelegation at clock reading ms, and whether it clears
LoadDelegation(ms) ==
    LET stored == delegationStorage.delegation
    IN  IF stored = Null \/ Val(stored).kind = "empty"
        THEN [value |-> Null, clears |-> FALSE]
        ELSE IF Val(stored).kind = "garbage"
        THEN [value |-> Null, clears |-> TRUE]
        ELSE IF Expired(Val(stored).data, Seconds(ms))
        THEN [value |-> Null, clears |-> TRUE]
        ELSE [value |-> Some(Val(stored).data), clears |-> FALSE]

HookUnchanged == UNCHANGED <<hookVars, b64in, b64out, server>>

saveDelegation ==
    /\ \E t \in ExpiryTimes :
         delegationStorage' =
           [delegationStorage EXCEPT !.delegation = Some(StoredDelegation("json", Some(t)))]
    /\ storageReturn' = StorageReturned("saveDelegation", <<>>, Null)
    /\ HookUnchanged /\ UNCHANGED <<utilsInput, utilsReturn, retry>>

saveSpaceInfo ==
    /\ delegationStorage' = [delegationStorage EXCEPT !.spaceInfo = Some(S1)]
    /\ storageReturn' = StorageReturned("saveSpaceInfo", <<>>, Null)
    /\ HookUnchanged /\ UNCHANGED <<utilsInput, utilsReturn, retry>>

clearDelegation ==
    /\ delegationStorage' = NoEntries
    /\ storageReturn' = StorageReturned("clearDelegation", <<>>, Null)
    /\ HookUnchanged /\ UNCHANGED <<utilsInput, utilsReturn, retry>>

loadDelegation ==
    /\ \E ms \in ClockReadings :
        LET loaded == LoadDelegation(ms)
        IN  /\ delegationStorage' =
                 IF loaded.clears THEN NoEntries ELSE delegationStorage
            /\ storageReturn' = StorageReturned("loadDelegation", <<ms>>, loaded.value)
    /\ HookUnchanged /\ UNCHANGED <<utilsInput, utilsReturn, retry>>

\* loadDelegation, then a second reading of the clock
hasValidDelegation ==
    /\ \E ms1, ms2 \in ClockReadings :
        LET loaded == LoadDelegation(ms1)
            delegation == loaded.value
        IN  /\ ms1 <= ms2
            /\ delegationStorage' =
                 IF loaded.clears THEN NoEntries ELSE delegationStorage
            /\ storageReturn' =
                 StorageReturned("hasValidDelegation", <<ms1, ms2>>,
                    IF delegation = Null THEN Some(FALSE)
                    ELSE Some(/\ Val(delegation).expiresAt # Null
                              /\ Val(Val(delegation).expiresAt)
                                   > Seconds(ms2) + ExpiryBuffer))
    /\ HookUnchanged /\ UNCHANGED <<utilsInput, utilsReturn, retry>>

\* the hooks at rest while lib/api.ts is exercised
HooksIdle ==
    /\ InitState /\ app = "expert"
    /\ localStorage = [session |-> Null, uploads |-> Null]
    /\ b64in = <<>>

InitStorage ==
    /\ HooksIdle
    /\ delegationStorage \in [delegation : {Null} \cup { Some(d) : d \in StoredDelegations },
                              spaceInfo : {Null, Some(S1)}]
    /\ storageReturn = Null
    /\ utilsInput = NoInput /\ utilsReturn = Null /\ retry = NoRetry
    /\ server = NoServer

NextStorage ==
    \/ saveDelegation
    \/ saveSpaceInfo
    \/ clearDelegation
    \/ loadDelegation
    \/ hasValidDelegation

SpecStorage == InitStorage /\ [][NextStorage]_vars

----------------------------------------------------------------------------
(* lib/api.ts: utils for content identifiers *)

Drop(s, n) == SubSeq(s, n + 1, Len(s))
AllIn(s, class) == \A i \in 1..Len(s) : s[i] \in class

IpfsScheme == <<"i","p","f","s",":","/","/">>
HttpScheme == <<"h","t","t","p",":","/","/">>
HttpsScheme == <<"h","t","t","p","s",":","/","/">>
IpfsPath == <<"/","i","p","f","s","/">>
DotIpfsDot == <<".","i","p","f","s",".">>

\* .replace(/^(ipfs:\/\/|https?:\/\/)/, '')
StripScheme(s) ==
    IF StartsWith(s, IpfsScheme) THEN Drop(s, Len(IpfsScheme))
    ELSE IF StartsWith(s, HttpsScheme) THEN Drop(s, Len(HttpsScheme))
    ELSE IF StartsWith(s, HttpScheme) THEN Drop(s, Len(HttpScheme))
    ELSE s

\* .replace(/\.ipfs\.[^\/]+/, ''): the leftmost '.ipfs.' that at least one
\* character other than '/' follows, and all such characters after it
StripGateway(s) ==
    LET hits == { i \in 1..(Len(s) - Len(DotIpfsDot)) :
                    /\ SubSeq(s, i, i + Len(DotIpfsDot) - 1) = DotIpfsDot
                    /\ s[i + Len(DotIpfsDot)] # "/" }
    IN  IF hits = {} THEN s
        ELSE LET i == CHOOSE h \in hits : \A j \in hits : h <= j
                 slashes == { j \in (i + Len(DotIpfsDot))..Len(s) : s[j] = "/" }
                 end == IF slashes = {} THEN Len(s) + 1
                        ELSE CHOOSE j \in slashes : \A k \in slashes : j <= k
             IN  SubSeq(s, 1, i - 1) \o SubSeq(s, end, Len(s))

\* .replace(/^\/ipfs\//, '')
StripIpfsPath(s) == IF StartsWith(s, IpfsPath) THEN Drop(s, Len(IpfsPath)) ELSE s

\* .split('/')[0]
FirstSegment(s) ==
    LET slashes == { j \in 1..Len(s) : s[j] = "/" }
    IN  IF slashes = {} THEN s
        ELSE SubSeq(s, 1, (CHOOSE j \in slashes : \A k \in slashes : j <= k) - 1)

extractCID(input) ==
    IF input = <<>> THEN <<>>
    ELSE FirstSegment(StripIpfsPath(StripGateway(StripScheme(input))))

\* the character classes of isValidCID
Base58btc == (Digit \ {"0"}) \cup (Upper \ {"I", "O"}) \cup (Lower \ {"l"})
Base32 == Lower \cup {"2","3","4","5","6","7"}
Base16 == Digit \cup {"a","b","c","d","e","f"}
Base36 == Digit \cup Lower
Base64 == Upper \cup Lower \cup Digit \cup {"+", "/"}
GenericChars == Upper \cup Lower \cup Digit \cup {"_", "-", "."}
commonPrefixes == {"k", "K", "h", "H", "9"}

V0Length == 46
Base32MinLength == 59
Base58MinLength == 46
GenericMinLength == 30

\* /^<first>[class]+$/
PrefixedRun(s, class) == Len(s) >= 2 /\ AllIn(Tail(s), class)

\* /^[mM][A-Za-z0-9+/]+={0,2}$/
Base64Run(s) ==
    \E pad \in 0..2 :
        /\ Len(s) >= 2 + pad
        /\ AllIn(SubSeq(s, 2, Len(s) - pad), Base64)
        /\ AllIn(SubSeq(s, Len(s) - pad + 1, Len(s)), {"="})

isValidCID(cid) ==
    LET cleanCID == extractCID(cid)
        first == cleanCID[1]
    IN  IF cid = <<>> \/ cleanCID = <<>> THEN FALSE
        ELSE IF StartsWith(cleanCID, <<"Q","m">>) /\ Len(cleanCID) = V0Length
        THEN AllIn(Drop(cleanCID, 2), Base58btc)
        ELSE IF first = "b"
        THEN PrefixedRun(cleanCID, Base32) /\ Len(cleanCID) >= Base32MinLength
        ELSE IF first = "z"
        THEN PrefixedRun(cleanCID, Base58btc) /\ Len(cleanCID) >= Base58MinLength
        ELSE IF first = "f" THEN PrefixedRun(cleanCID, Base16)
        ELSE IF first = "v" THEN PrefixedRun(cleanCID, Base36)
        ELSE IF first = "t" THEN PrefixedRun(cleanCID, Digit)
        ELSE IF first \in {"m", "M"} THEN Base64Run(cleanCID)
        ELSE IF first \in commonPrefixes THEN Len(cleanCID) > GenericMinLength
        ELSE IF Len(cleanCID) < GenericMinLength THEN FALSE
        ELSE AllIn(cleanCID, GenericChars)

\* encodeURIComponent: the unreserved characters stay, the others become the
\* percent-encoding of their UTF-8 bytes
Unreserved == Upper \cup Lower \cup Digit \cup {"-", "_", ".", "!", "~", "*", "'", "(", ")"}
PercentEncoded(c) ==
    CASE c = " " -> <<"%","2","0">>
      [] c = "/" -> <<"%","2","F">>
      [] c = "#" -> <<"%","2","3">>
      [] c = "%" -> <<"%","2","5">>
      [] c = "?" -> <<"%","3","F">>
RECURSIVE encodeURIComponent(_)
encodeURIComponent(s) ==
    IF s = <<>> THEN <<>>
    ELSE (IF Head(s) \in Unreserved THEN <<Head(s)>> ELSE PercentEncoded(Head(s)))
         \o encodeURIComponent(Tail(s))

DefaultGateway == <<"d","w","e","b",".","l","i","n","k">>

Threw(message) == [threw |-> TRUE, message |-> message]
Gave(value) == [threw |-> FALSE, value |-> value]
InvalidCidError(cid) == <<"Invalid CID: ", cid>>

\* a gateway URL built without asking isValidCID
createGatewayURLUnchecked(cid, filename, gateway) ==
    LET cleanCID == extractCID(cid)
        base == <<"h","t","t","p","s",":","/","/">> \o cleanCID
                  \o <<".","i","p","f","s",".">> \o gateway
    IN  IF filename # <<>>
        THEN Gave(base \o <<"/">> \o encodeURIComponent(
                     IF Head(filename) = "/" THEN Tail(filename) ELSE filename))
        ELSE Gave(base)

createGatewayURL(cid, filename, gateway) ==
    LET cleanCID == extractCID(cid)
        base == <<"h","t","t","p","s",":","/","/">> \o cleanCID
                  \o <<".","i","p","f","s",".">> \o gateway
    IN  IF ~isValidCID(cleanCID) THEN Threw(InvalidCidError(cid))
        ELSE IF filename # <<>>
        THEN Gave(base \o <<"/">> \o encodeURIComponent(
                     IF Head(filename) = "/" THEN Tail(filename) ELSE filename))
        ELSE Gave(base)

\* The arguments given to the utils.
MaxCidLen == 60     \* longest identifier made of a leading character and a run
MaxTokens == 2      \* longest identifier made of tokens

ReplaceAt(s, p, c) == [s EXCEPT ![p] = c]
RemoveAt(s, p) == SubSeq(s, 1, p - 1) \o SubSeq(s, p + 1, Len(s))
InsertAt(s, p, c) == SubSeq(s, 1, p - 1) \o <<c>> \o SubSeq(s, p, Len(s))

\* legacy identifiers, and each with one character replaced by '0' or removed
V0Ids == { <<"Q","m">> \o Rep(c, V0Length - 2) : c \in {"1", "z", "Q"} }
V0Variants ==
    V0Ids
    \cup { ReplaceAt(s, p, "0") : s \in V0Ids, p \in 1..V0Length }
    \cup { RemoveAt(s, p) : s \in V0Ids, p \in 1..V0Length }

\* a leading character and a run of one character
LeadingChars ==
    {"b", "z", "f", "v", "t", "m", "M", "k", "K", "h", "H", "9", "Q", "x"}
RunChars == {"a", "2", "0", "A"}
PrefixedIds ==
    { <<p>> \o Rep(c, n - 1) : p \in LeadingChars, c \in RunChars, n \in 1..MaxCidLen }

\* identifiers made of tokens, bare or not
Tokens ==
    { <<"b","a","f","y">>, <<"Q","m">>, <<"i","p","f","s">>, <<"h","t","t","p">>,
      <<".">>, <<":">>, <<"/">> }
RECURSIVE TokenStrings(_)
TokenStrings(n) ==
    IF n = 0 THEN { <<>> }
    ELSE LET shorter == TokenStrings(n - 1)
         IN  shorter \cup { s \o t : s \in shorter, t \in Tokens }
TokenIds == TokenStrings(MaxTokens)

Gateways == { DefaultGateway, <<"w","3","s",".","l","i","n","k">> }
Paths == { <<"s","u","b","/","p">>, <<"a">> \o DotIpfsDot \o <<"b">> }

\* the wrappings of an identifier
Wrappings(c) ==
    { IpfsScheme \o c }
    \cup { IpfsScheme \o c \o <<"/">> \o path : path \in Paths }
    \cup { scheme \o c \o DotIpfsDot \o gateway :
             scheme \in {HttpScheme, HttpsScheme}, gateway \in Gateways }
    \cup { scheme \o c \o DotIpfsDot \o gateway \o <<"/">> \o path :
             scheme \in {HttpScheme, HttpsScheme}, gateway \in Gateways,
             path \in Paths }
    \cup { IpfsPath \o c \o <<"/">> \o path : path \in Paths }

CidInputs ==
    V0Variants \cup PrefixedIds \cup { IpfsScheme \o s : s \in V0Ids } \cup { <<>> }

GatewayCids ==
    V0Ids
    \cup { ReplaceAt(s, 5, "0") : s \in V0Ids }
    \cup UNION { Wrappings(s) : s \in V0Ids }
    \cup TokenStrings(1)
    \cup { <<p>> \o Rep("a", n - 1) : p \in {"b", "f", "x"},
                                      n \in {1, GenericMinLength, Base32MinLength} }

Filenames ==
    { <<>>, <<"a",".","t","x","t">>, <<"/","a",".","t","x","t">>,
      <<"a"," ","b">>, <<"/">>, <<"a","/","b","#","?","%">> }

UtilsReturned(op, value) == Some([op |-> op, value |-> value])

LibUnchanged == UNCHANGED <<delegationStorage, storageReturn, retry>>

\* the calls made of the utils
UtilsInputs ==
    { [fn |-> "isValidCID", args |-> <<cid>>, id |-> Null] : cid \in CidInputs }
    \cup { [fn |-> "extractCID", args |-> <<c>>, id |-> Null] : c \in TokenIds }
    \cup UNION { { [fn |-> "extractCID", args |-> <<input>>, id |-> Some(c)] :
                     input \in Wrappings(c) } : c \in TokenIds }
    \cup { [fn |-> "createGatewayURL", args |-> <<cid, filename, gateway>>, id |-> Null] :
             cid \in GatewayCids, filename \in Filenames, gateway \in Gateways }

callIsValidCID ==
    /\ utilsInput.fn = "isValidCID" /\ utilsReturn = Null
    /\ utilsReturn' = UtilsReturned("isValidCID", isValidCID(utilsInput.args[1]))
    /\ HookUnchanged /\ LibUnchanged /\ UNCHANGED utilsInput

callExtractCID ==
    /\ utilsInput.fn = "extractCID" /\ utilsReturn = Null
    /\ utilsReturn' = UtilsReturned("extractCID", extractCID(utilsInput.args[1]))
    /\ HookUnchanged /\ LibUnchanged /\ UNCHANGED utilsInput

callCreateGatewayURL ==
    /\ utilsInput.fn = "createGatewayURL" /\ utilsReturn = Null
    /\ utilsReturn' = UtilsReturned("createGatewayURL",
          createGatewayURL(utilsInput.args[1], utilsInput.args[2], utilsInput.args[3]))
    /\ HookUnchanged /\ LibUnchanged /\ UNCHANGED utilsInput

InitUtils ==
    /\ HooksIdle
    /\ delegationStorage = NoEntries /\ storageReturn = Null /\ retry = NoRetry
    /\ server = NoServer
    /\ utilsInput \in UtilsInputs
    /\ utilsReturn = Null

NextUtils ==
    \/ callIsValidCID
    \/ callExtractCID
    \/ callCreateGatewayURL

SpecUtils == InitUtils /\ [][NextUtils]_vars

----------------------------------------------------------------------------
(* lib/api.ts: the delegation request and its retries *)

MaxRetries == 3     \* largest maxRetries given

Delays == {1000, 250}

\* request: the parsed body of an ok response, or an APIError; the status is
\* Null when fetch or response.json() failed
Delegation == [ok |-> TRUE, data |-> "delegation"]
APIError(status) == [ok |-> FALSE, name |-> "APIError", status |-> status]
RequestOutcomes ==
    { Delegation, APIError(Null) }
    \cup { APIError(Some(status)) : status \in {400, 401, 403, 404, 500} }

NoAttemptError == [ok |-> FALSE, name |-> "Error", status |-> Null]

RECURSIVE Pow2(_)
Pow2(n) == IF n = 0 THEN 1 ELSE 2 * Pow2(n - 1)

\* the same wait before every retry
FixedDelay(delay, attempt) == delay

\* delay * Math.pow(2, attempt - 1)
Backoff(delay, attempt) == delay * Pow2(attempt - 1)

\* if (error.status === 400) throw error; if (401 || 403) throw error
NotRetried(e) == e.name = "APIError" /\ e.status \in {Some(400), Some(401), Some(403)}

RetryUnchanged ==
    HookUnchanged /\ UNCHANGED <<delegationStorage, storageReturn, utilsInput, utilsReturn>>

\* the call up to its first await: the first request, with no wait, or the
\* throw after a loop that never ran
getDelegationWithRetry ==
    /\ retry.pc \in {"idle", "returned", "threw"}
    /\ \E maxRetries \in 0..MaxRetries, delay \in Delays :
         retry' =
           IF maxRetries > 0
           THEN [NoRetry EXCEPT !.pc = "requesting", !.maxRetries = maxRetries,
                                !.delay = delay]
           ELSE [NoRetry EXCEPT !.pc = "threw", !.maxRetries = maxRetries,
                                !.delay = delay, !.result = Some(NoAttemptError)]
    /\ RetryUnchanged

\* the request settles: return, throw, or go round the loop to the wait
requestSettles ==
    /\ retry.pc = "requesting"
    /\ \E outcome \in RequestOutcomes :
         LET made == [retry EXCEPT !.outcomes = Append(@, outcome)]
         IN  retry' =
               IF outcome.ok
               THEN [made EXCEPT !.pc = "returned", !.result = Some(outcome)]
               ELSE IF NotRetried(outcome) \/ retry.attempt = retry.maxRetries - 1
               THEN [made EXCEPT !.pc = "threw", !.lastError = Some(outcome),
                                 !.result = Some(outcome)]
               ELSE [made EXCEPT !.pc = "waiting", !.lastError = Some(outcome),
                                 !.attempt = @ + 1,
                                 !.waits = Append(@, Backoff(retry.delay, retry.attempt + 1))]
    /\ RetryUnchanged

\* the wait is over: the next request
retryTimerFires ==
    /\ retry.pc = "waiting"
    /\ retry' = [retry EXCEPT !.pc = "requesting"]
    /\ RetryUnchanged

InitRetry ==
    /\ HooksIdle
    /\ LibIdle

NextRetry ==
    \/ getDelegationWithRetry
    \/ requestSettles
    \/ retryTimerFires

SpecRetry == InitRetry /\ [][NextRetry]_vars

\* a timer that was set fires, and a request that was sent settles
SpecRetryFair ==
    SpecRetry /\ WF_vars(retryTimerFires) /\ WF_vars(requestSettles)

----------------------------------------------------------------------------
(* server.js: initializeStoracha and the routes that use storachaClient *)

MaxRequests == 2    \* requests the backend serves at the same time
MaxClients == 2     \* clients Client.create hands out

\* process.env: a value that is not set, one with no base64 character, one
\* that may parse
PrivateKeys == { <<>>, <<"-">>, <<"M","g","A","A">> }
ProofStrings == { <<>>, <<" ">>, <<"A","A","A","A">> }
Envs == [privateKey : PrivateKeys, proofString : ProofStrings]

DidPrefix == <<"d","i","d",":">>
UserDids == { <<"d","i","d",":","k">>, <<"k">> }

\* how an awaited SDK call settles: it resolves, rejects with an Error, or
\* rejects with a value that has no message
Settlements == {"resolves", "rejects", "rejectsWithNull"}

\* a client fresh from Client.create
CreatedClient == [spaceAdded |-> FALSE, currentSpace |-> FALSE]

\* a request suspended at an await: the SDK call it waits for, the client
\* that call was made on, and storachaClient as initializeStoracha found it
Request(route, did, pc, target, before) ==
    [route |-> route, did |-> did, pc |-> pc, target |-> target, before |-> before]

\* what the last step of the backend did: the response it sent, how the run
\* of initializeStoracha in it returned, the SDK call it made
NoEvent ==
    [route |-> "", status |-> 0, success |-> FALSE, storacha |-> FALSE,
     initReturned |-> "", before |-> 0, called |-> "", target |-> 0]

Responded(srv, route, status, success, event) ==
    [srv EXCEPT !.event = Some([event EXCEPT !.route = route, !.status = status,
                                             !.success = success,
                                             !.storacha = srv.storachaClient # 0])]

Awaiting(srv, request, event) ==
    [srv EXCEPT !.requests = @ (+) SetToBag({request}),
                !.event = Some([event EXCEPT !.route = request.route,
                                             !.called = request.pc,
                                             !.target = request.target])]

\* GET /api/delegation/:did from the line after the initialisation
Delegate(srv, did, parses, event) ==
    IF ~StartsWith(did, DidPrefix)
    THEN Responded(srv, "delegation", 400, FALSE, event)
    ELSE IF ~parses
    THEN Responded(srv, "delegation", 500, FALSE, event)
    ELSE Awaiting(srv, Request("delegation", did, "createDelegation",
                               srv.storachaClient, 0), event)

\* the handler that awaited initializeStoracha, resumed with what it returned
InitReturns(srv, request, result, parses) ==
    LET event == [NoEvent EXCEPT !.initReturned = result, !.before = request.before]
        done == [srv EXCEPT !.initialized = @ \/ result = "true"]
    IN  IF result = "rejects"
        THEN Responded(done, request.route, 500, FALSE, event)
        ELSE IF request.route = "test-setup"
        THEN Responded(done, "test-setup", 200, result = "true", event)
        ELSE IF result = "false"
        THEN Responded(done, "delegation", 500, FALSE, event)
        ELSE Delegate(done, request.did, parses, event)

\* initializeStoracha up to its first await
InitializeStoracha(srv, route, did, signerParses, parses) ==
    LET env == srv.env
        request == Request(route, did, "Client.create", 0, srv.storachaClient)
        cleanedPrivateKey == serverCleanBase64(env.privateKey)
        cleanedProofString == serverCleanBase64(env.proofString)
    IN  IF env.privateKey = <<>> \/ env.proofString = <<>>
        THEN InitReturns(srv, request, "false", parses)
        ELSE IF Val(cleanedPrivateKey) = <<>> \/ Val(cleanedProofString) = <<>>
        THEN InitReturns(srv, request, "false", parses)
        ELSE IF ~signerParses
        THEN InitReturns(srv, request, "false", parses)
        ELSE Awaiting(srv, request, NoEvent)

\* the catch block of initializeStoracha: it reads error.message
InitCatches(srv, request, settlement, parses) ==
    InitReturns(srv, request,
                IF settlement = "rejectsWithNull" THEN "rejects" ELSE "false", parses)

\* createDelegation and archive settled: the response of the route, 0 where
\* its catch block throws on reading error.message and nothing is sent
DelegationStatus(settlement) ==
    CASE settlement = "resolves" -> 200
      [] settlement = "rejects" -> 500
      [] settlement = "rejectsWithNull" -> 0

ServerUnchanged ==
    UNCHANGED <<hookVars, b64in, b64out, delegationStorage, storageReturn,
                utilsInput, utilsReturn, retry>>

CanServe == BagCardinality(server.requests) < MaxRequests
\* a run of initializeStoracha may start while Client.create has clients left
Creating ==
    [r \in { q \in BagToSet(server.requests) : q.pc = "Client.create" } |->
        CopiesIn(r, server.requests)]
CanCreate == Len(server.clients) + BagCardinality(Creating) < MaxClients

getHealth ==
    /\ server' = Responded(server, "health", 200, TRUE, NoEvent)
    /\ ServerUnchanged

getDelegation ==
    /\ CanServe
    /\ \E did \in UserDids, signerParses \in BOOLEAN, parses \in BOOLEAN :
        IF server.storachaClient = 0
        THEN /\ CanCreate
             /\ server' = InitializeStoracha(server, "delegation", did,
                                             signerParses, parses)
        ELSE /\ signerParses
             /\ server' = Delegate(server, did, parses, NoEvent)
    /\ ServerUnchanged

getTestSetup ==
    /\ CanServe /\ CanCreate
    /\ \E signerParses \in BOOLEAN :
        server' = InitializeStoracha(server, "test-setup", <<>>, signerParses, TRUE)
    /\ ServerUnchanged

\* an awaited SDK call settles and the function that awaited it runs on to
\* its next await or to its end
sdkCallSettles ==
    /\ \E request \in BagToSet(server.requests), settlement \in Settlements,
          parses \in BOOLEAN :
        LET resumed == [server EXCEPT !.requests = @ (-) SetToBag({request})]
            pc == request.pc
        IN  server' =
              IF pc = "createDelegation"
              THEN Responded(resumed, "delegation",
                             DelegationStatus(settlement),
                             settlement = "resolves", NoEvent)
              ELSE IF settlement # "resolves"
              THEN InitCatches(resumed, request, settlement, parses)
              ELSE IF pc = "Client.create"
              THEN LET made == [resumed EXCEPT
                                  !.clients = Append(@, CreatedClient),
                                  !.storachaClient = Len(resumed.clients) + 1]
                   IN  Awaiting(made, [request EXCEPT !.pc = "Proof.parse"], NoEvent)
              ELSE IF pc = "Proof.parse"
              THEN Awaiting(resumed, [request EXCEPT !.pc = "addSpace",
                                        !.target = resumed.storachaClient], NoEvent)
              ELSE IF pc = "addSpace"
              THEN LET added == [resumed EXCEPT
                                   !.clients[request.target].spaceAdded = TRUE]
                   IN  Awaiting(added, [request EXCEPT !.pc = "setCurrentSpace",
                                          !.target = added.storachaClient], NoEvent)
              ELSE LET current == [resumed EXCEPT
                                     !.clients[request.target].currentSpace = TRUE]
                   IN  InitReturns(current, request, "true", parses)
    /\ ServerUnchanged

InitServer ==
    /\ HooksIdle
    /\ delegationStorage = NoEntries /\ storageReturn = Null
    /\ utilsInput = NoInput /\ utilsReturn = Null /\ retry = NoRetry
    /\ \E env \in Envs : server = [NoServer EXCEPT !.env = env]

NextServer ==
    \/ getHealth
    \/ getDelegation
    \/ getTestSetup
    \/ sdkCallSettles

SpecServer == InitServer /\ [][NextServer]_vars

----------------------------------------------------------------------------
(* Properties of the delegation bootstrap *)

Range(seq) == { seq[i] : i \in 1..Len(seq) }

\* the last step returned from a run of the delegation bootstrap
BootstrapReturned ==
    /\ lastReturn # Null
    /\ Val(lastReturn).op \in {"loginWithDelegation", "setupDelegation"}

\* the run got its proof parsed, so the capability check took place
CapabilitiesChecked ==
    BootstrapReturned /\ Val(lastReturn).trace.capabilities # Null

\* the names a grant lists, and the required names it lacks
GrantedNames(capabilities) == { c.can : c \in Range(capabilities) }
LackingNames(capabilities) == Range(requiredCapabilities) \ GrantedNames(capabilities)

\* the run failed on the capability check
CheckFailed(r) == r.error # Null /\ Val(r.error).missing # <<>>

\* C1: a bootstrap whose parsed proof lacks a required capability fails with
\* an error naming every capability it lacks, and that run invokes neither
\* addSpace nor setCurrentSpace nor saveSession.
C1_MissingCapabilityFails ==
    CapabilitiesChecked =>
        LET r == Val(lastReturn)
            lacking == LackingNames(Val(r.trace.capabilities))
        IN  lacking # {} =>
              /\ ~r.ok
              /\ CheckFailed(r)
              /\ lacking \subseteq Range(Val(r.error).missing)
              /\ Range(r.trace.invoked)
                   \cap {"addSpace", "setCurrentSpace", "saveSession"} = {}
              /\ r.trace.activated = "" /\ ~r.trace.saved

\* C2: the capability check passes exactly when every required name is a
\* member of the names the grant lists; a name that only occurs inside
\* another name or inside a resource grants nothing.
C2_CheckIsMembership ==
    CapabilitiesChecked =>
        LET r == Val(lastReturn)
        IN  ~CheckFailed(r) <=> LackingNames(Val(r.trace.capabilities)) = {}

\* the step returns from a bootstrap whose client enumerated its spaces
SpacesEnumerated(r) ==
    /\ r.op \in {"loginWithDelegation", "setupDelegation"}
    /\ Len(r.trace.invoked) >= 5
    /\ r.error # Some(SdkError("spaces"))

\* C3: once the spaces are enumerated the bootstrap activates the requested
\* DID when it is among them and the first space otherwise; it fails with
\* 'No space available', calling no setCurrentSpace and leaving the stored
\* session alone, exactly when no space is enumerated.
C3_SpaceSelection ==
    [][lastReturn' # Null /\ SpacesEnumerated(Val(lastReturn')) =>
        LET r == Val(lastReturn')
            spaces == r.trace.spaces
            requested == r.config.spaceDid
        IN  /\ (spaces = <<>>) <=> (r.error = Some(NoSpaceAvailable))
            /\ spaces = <<>> =>
                 /\ ~r.ok
                 /\ "setCurrentSpace" \notin Range(r.trace.invoked)
                 /\ r.trace.activated = ""
                 /\ UNCHANGED <<localStorage, userSession>>
            /\ spaces # <<>> =>
                 /\ "setCurrentSpace" \in Range(r.trace.invoked)
                 /\ r.trace.activated =
                      IF requested # "" /\ \E sp \in Range(spaces) : sp.did = requested
                      THEN requested
                      ELSE spaces[1].did]_vars

\* a run asked for the second of two enumerated spaces and was logged in on it
C3_Witness_RequestedFound ==
    /\ BootstrapReturned
    /\ LET r == Val(lastReturn)
       IN  /\ r.ok
           /\ Len(r.trace.spaces) = 2
           /\ r.config.spaceDid = r.trace.spaces[2].did
           /\ userSession.spaceDid = r.config.spaceDid

----------------------------------------------------------------------------
(* Properties of the session *)

\* a logged-in session names its method and its space
WellFormed(session) ==
    session.isLoggedIn =>
        /\ session.method \in {Some("email"), Some("delegation")}
        /\ session.spaceDid # ""

\* C4: from an empty store, whatever loginWithEmail, loginWithDelegation,
\* initializeClient, refreshSpaces and logout do and however they end, a
\* session with isLoggedIn = true, in memory or in storage, has method email
\* or delegation and a non-empty spaceDid.
C4_LoggedInSessionWellFormed ==
    /\ WellFormed(userSession)
    /\ localStorage.session # Null =>
         LET stored == JSONparseSession(Val(localStorage.session))
         IN  stored.ok /\ WellFormed(stored.value)

\* the expert hook reconnected a stored delegated session and saved it again
C4_Witness_Reconnected ==
    /\ lastReturn # Null
    /\ Val(lastReturn).op = "initializeClient" /\ Val(lastReturn).ok
    /\ userSession.isLoggedIn
    /\ localStorage.session = Some(JSONstringifySession(userSession))

\* the stored text is absent or is no JSON
Unreadable(saved) == ~Truthy(saved) \/ ~JSONparseSession(Val(saved)).ok
UnreadableUploads(saved) == ~Truthy(saved) \/ ~JSONparseUploads(Val(saved)).ok

\* C5: start-up never fails on what it finds in storage: with storacha_session
\* (storacha_uploads) absent or not valid JSON the hook starts on the default
\* session (on an empty uploads list).
C5_LoadNeverFails ==
    mounted # "no" =>
        /\ mounted # "crashed"
        /\ mounted = "rendered" /\ Unreadable(localStorage.session)
             => userSession = DefaultSession
        /\ mounted = "rendered" /\ app = "dapp"
             /\ UnreadableUploads(localStorage.uploads)
             => uploadedFiles = <<>>

\* C6: logout removes the stored session, resets the session in memory to the
\* default, sets client and space to null, isConnected to false, empties the
\* progress map, and leaves both the stored and the in-memory uploads list as
\* they were.
C6_LogoutFrame ==
    [][lastReturn' # Null /\ Val(lastReturn').op = "logout" =>
        /\ localStorage'.session = Null
        /\ userSession' = DefaultSession
        /\ client' = Null /\ space' = Null
        /\ app = "dapp" => isConnected' = FALSE /\ uploadProgress' = EmptyMap
        /\ localStorage'.uploads = localStorage.uploads
        /\ uploadedFiles' = uploadedFiles]_vars

\* logged out with an upload on record, stored, and its progress entry not
\* yet due for removal
C6_Witness_LogoutWithUploads ==
    /\ lastReturn # Null /\ Val(lastReturn).op = "logout"
    /\ uploadedFiles # <<>>
    /\ localStorage.uploads = Some(JSONstringifyUploads(uploadedFiles))
    /\ \E t \in BagToSet(timers) : t.kind = "timeout"
    /\ uploadProgress = EmptyMap

\* C7: the value under storacha_session and userSession agree after every
\* session mutation: no entry goes with the default session, an entry is the
\* JSON of the session in memory; neither changes without the other.
C7_StoreMirrorsSession ==
    IF localStorage.session = Null
    THEN userSession = DefaultSession
    ELSE localStorage.session = Some(JSONstringifySession(userSession))

\* refreshSpaces stored a session again after a logout had cleared it
C7_Witness_SavedAfterRefresh ==
    /\ lastReturn # Null /\ Val(lastReturn).op = "refreshSpaces"
    /\ userSession.isLoggedIn
    /\ localStorage.session # Null
    /\ client = Null

----------------------------------------------------------------------------
(* Properties of the cleaning and validation of key and proof *)

OnlyBase64(s) == \A i \in 1..Len(s) : s[i] \in Base64Alphabet

\* what the validation is to reject: a cleaned proof of fewer than
\* MinProofLen characters, a key that does not start with Mg
ShortProof(cfg) == Len(cleanBase64(ProofText(cfg.proof))) < MinProofLen
BadKey(cfg) == ~StartsWith(Trim(KeyText(cfg.key)), <<"M", "g">>)

C9_InputsNormalised ==
    BootstrapReturned =>
        LET t == Val(lastReturn).trace
        IN  /\ t.signerArg # Null => OnlyBase64(Val(t.signerArg))
            /\ t.proofArg # Null =>
                 /\ OnlyBase64(Val(t.proofArg))
                 /\ Len(Val(t.proofArg)) % 4 = 0

\* C10: for a non-empty input the backend's cleanBase64 returns base64
\* characters only: the input's base64 characters in their order, then at
\* most three =, a multiple of 4 characters in all; cleaning a non-empty
\* result again returns it unchanged.
C10_ServerCleanBase64 ==
    b64out # Null /\ b64in # <<>> =>
        LET out == Val(b64out)
        IN  /\ OnlyBase64(out)
            /\ Len(out) % 4 = 0
            /\ \E k \in 0..3 : out = SelectSeq(b64in, IsBase64Char) \o Rep("=", k)
            /\ out # <<>> => serverCleanBase64(out) = Some(out)

\* an input with a blank and a stray character came back padded
C10_Witness_StrippedAndPadded ==
    /\ b64out = Some(<<"A", "A", "=", "=">>)
    /\ \E i, j \in 1..Len(b64in) : b64in[i] = "-" /\ b64in[j] = " "

----------------------------------------------------------------------------
(* What reaches browser storage *)

\* the texts under storacha_session and storacha_uploads
StoredTexts ==
    { Val(t) : t \in { localStorage.session, localStorage.uploads } \ {Null} }

\* every key and proof a bootstrap can be given, as given and as cleaned
Secrets ==
    ({ KeyText(k) : k \in Keys } \cup { Trim(KeyText(k)) : k \in Keys }
     \cup { ProofText(q) : q \in Proofs }
     \cup { cleanBase64(ProofText(q)) : q \in Proofs }) \ {<<>>}

SessionFields == {"email", "isLoggedIn", "method", "spaceDid", "agentDid"}

\* C11: storage written by the hooks never holds the key or the proof given
\* to the bootstrap: a stored session is the JSON of the five session fields,
\* none of them the key or the proof, and no stored text contains either.
C11_NoSecretInStorage ==
    /\ \A text \in StoredTexts : \A secret \in Secrets : ~Includes(text, secret)
    /\ DOMAIN userSession = SessionFields
    /\ userSession.email \notin Secrets
    /\ localStorage.session # Null =>
         /\ JSONparseSession(Val(localStorage.session)).ok
         /\ JSONparseSession(Val(localStorage.session)).value = userSession

\* a bootstrap given a key and a proof has logged in and stored its session
C11_Witness_StoredAfterBootstrap ==
    /\ BootstrapReturned /\ Val(lastReturn).ok
    /\ Val(lastReturn).trace.signerArg # Null
    /\ Val(lastReturn).trace.proofArg # Null
    /\ localStorage.session = Some(JSONstringifySession(userSession))
    /\ calls = EmptyBag

----------------------------------------------------------------------------
(* Reconnecting at start-up (dApp hook) *)

\* the session found in storage by a hook that rendered
PersistedSession ==
    IF Truthy(localStorage.session)
    THEN JSONparseSession(Val(localStorage.session)).value
    ELSE DefaultSession

\* this step invokes loginWithEmail(email): the call is suspended at its
\* first await, or has returned on the validation of the email
InvokesLoginWithEmail(email) ==
    \/ calls' = calls (+) SetToBag({[Call("loginWithEmail", "create")
                                       EXCEPT !.email = email]})
    \/ /\ calls' = calls
       /\ lastReturn' = Returned("loginWithEmail", FALSE, Some(InvalidEmail),
                                 NoConfig, NoTrace)

\* this step invokes no loginWithEmail
InvokesNoLogin ==
    /\ \A c \in BagToSet(calls') :
         c.op = "loginWithEmail" => CopiesIn(c, calls') <= CopiesIn(c, calls)
    /\ lastReturn' # Null /\ Val(lastReturn').op = "loginWithEmail"
         => calls' # calls

----------------------------------------------------------------------------
(* Properties of the stored delegation *)

\* C13: loadDelegation returns null and removes the stored delegation and
\* space info whenever the stored expiresAt is earlier than the current time
\* in seconds; hasValidDelegation returns true only for a stored delegation
\* whose expiresAt is more than 300 seconds after the current time, so one
\* within 300 seconds of its expiry is reported not valid while loadDelegation
\* still returns it.
C13_ExpiryAwareLoad ==
    [][storageReturn' # Null =>
        LET r == Val(storageReturn')
            stored == delegationStorage.delegation
            readable == stored # Null /\ Val(stored).kind = "json"
                        /\ Val(stored).data.expiresAt # Null
            expiresAt == Val(Val(stored).data.expiresAt)
            nowSeconds == r.times[Len(r.times)] \div 1000
        IN  /\ r.op = "loadDelegation" /\ readable /\ expiresAt < nowSeconds =>
                 r.value = Null /\ delegationStorage' = NoEntries
            /\ r.op = "loadDelegation" /\ readable /\ expiresAt >= nowSeconds =>
                 /\ r.value = Some(Val(stored).data)
                 /\ delegationStorage' = delegationStorage
            /\ r.op = "hasValidDelegation" =>
                 /\ r.value = Some(TRUE) =>
                      readable /\ expiresAt > nowSeconds + 300
                 /\ readable /\ expiresAt >= nowSeconds
                      /\ expiresAt <= nowSeconds + 300 =>
                      /\ r.value = Some(FALSE)
                      /\ delegationStorage' = delegationStorage]_vars

\* a delegation 300 seconds from its expiry was reported not valid and kept
C13_Witness_WithinBuffer ==
    /\ storageReturn # Null
    /\ Val(storageReturn).op = "hasValidDelegation"
    /\ Val(storageReturn).value = Some(FALSE)
    /\ delegationStorage.delegation = Some(StoredDelegation("json", Some(1000)))
    /\ Val(storageReturn).times = <<700000, 700999>>

----------------------------------------------------------------------------
(* Properties of the content identifier utils *)

IsV0(s) ==
    Len(s) = 46 /\ s[1] = "Q" /\ s[2] = "m"
    /\ \A i \in 3..46 : s[i] \in Base58btc

\* the character an identifier may have at position p
V0CharsAt(p) == IF p = 1 THEN {"Q"} ELSE IF p = 2 THEN {"m"} ELSE {"1"}

\* s is a legacy identifier with one character replaced by '0'
ReplacedV0(s) ==
    Len(s) = 46
    /\ \E p \in 1..46 : s[p] = "0" /\ \E c \in V0CharsAt(p) : IsV0(ReplaceAt(s, p, c))

\* s is a legacy identifier with one character removed
ShortenedV0(s) ==
    Len(s) = 45
    /\ \E p \in 1..46 : \E c \in V0CharsAt(p) : IsV0(InsertAt(s, p, c))

\* C14: isValidCID accepts every 46-character string of 'Qm' and 44 base58btc
\* characters, and rejects every such string with one character replaced by
\* '0' and every 45-character string left by removing one of its characters.
C14_LegacyIdentifiers ==
    utilsReturn # Null /\ Val(utilsReturn).op = "isValidCID" =>
        LET s == utilsInput.args[1]
            accepted == Val(utilsReturn).value
        IN  /\ IsV0(s) => accepted
            /\ ReplacedV0(s) \/ ShortenedV0(s) => ~accepted

\* C15: isValidCID accepts no identifier of fewer than 30 characters, whatever
\* its leading character.
C15_MinimumLength ==
    utilsReturn # Null /\ Val(utilsReturn).op = "isValidCID" =>
        (Len(utilsInput.args[1]) < 30 => ~Val(utilsReturn).value)

\* an identifier with no '/', no '.ipfs.' and no scheme in front
Bare(c) ==
    /\ \A i \in 1..Len(c) : c[i] # "/"
    /\ ~Includes(c, DotIpfsDot)
    /\ \A scheme \in { <<"i","p","f","s",":">>, <<"h","t","t","p",":">>,
                       <<"h","t","t","p","s",":">> } : ~StartsWith(c, scheme)

\* C16: extractCID returns exactly c for every wrapping of a bare identifier
\* c, and its result never contains a '/'.
C16_ExtractsBareIdentifier ==
    utilsReturn # Null /\ Val(utilsReturn).op = "extractCID" =>
        /\ \A i \in 1..Len(Val(utilsReturn).value) : Val(utilsReturn).value[i] # "/"
        /\ utilsInput.id # Null /\ Bare(Val(utilsInput.id)) =>
             Val(utilsReturn).value = Val(utilsInput.id)

GatewayUrlOf(id, gateway) == HttpsScheme \o id \o DotIpfsDot \o gateway

WithoutLeadingSlash(filename) ==
    IF filename # <<>> /\ Head(filename) = "/" THEN Tail(filename) ELSE filename

\* C17 as stated: createGatewayURL throws 'Invalid CID' whenever isValidCID
\* rejects the identifier extracted from its argument, and otherwise returns
\* 'https://<id>.ipfs.<gateway>', followed by '/' and the URL-encoded file
\* name when a file name is given.
C17_GatewayUrlOrInvalidCid ==
    utilsReturn # Null /\ Val(utilsReturn).op = "createGatewayURL" =>
        LET cid == utilsInput.args[1]
            filename == utilsInput.args[2]
            gateway == utilsInput.args[3]
            id == extractCID(cid)
            result == Val(utilsReturn).value
        IN  IF ~isValidCID(id)
            THEN result.threw /\ result.message[1] = "Invalid CID: "
            ELSE /\ ~result.threw
                 /\ result.value =
                      GatewayUrlOf(id, gateway)
                      \o (IF filename # <<>>
                          THEN <<"/">> \o encodeURIComponent(filename) ELSE <<>>)

\* C17 amended: as above, but the file name is encoded without its leading
\* '/' when it has one.
C17_GatewayUrlOfCleanFilename ==
    utilsReturn # Null /\ Val(utilsReturn).op = "createGatewayURL" =>
        LET cid == utilsInput.args[1]
            filename == utilsInput.args[2]
            gateway == utilsInput.args[3]
            id == extractCID(cid)
            result == Val(utilsReturn).value
        IN  IF ~isValidCID(id)
            THEN result.threw /\ result.message[1] = "Invalid CID: "
            ELSE /\ ~result.threw
                 /\ result.value =
                      GatewayUrlOf(id, gateway)
                      \o (IF filename # <<>>
                          THEN <<"/">> \o encodeURIComponent(WithoutLeadingSlash(filename))
                          ELSE <<>>)

\* a URL was returned for a wrapped identifier and a file name with a
\* leading '/' and characters to encode
C17_Witness_UrlWithFilename ==
    /\ utilsReturn # Null
    /\ Val(utilsReturn).op = "createGatewayURL"
    /\ ~Val(utilsReturn).value.threw
    /\ StartsWith(utilsInput.args[1], IpfsPath)
    /\ utilsInput.args[2] = <<"/","a",".","t","x","t">>

----------------------------------------------------------------------------
(* Properties of the delegation request *)

RetryRunning == retry.pc \in {"requesting", "waiting"}
RetryEnded == retry.pc \in {"returned", "threw"}

\* what holds at every point of a call with maxRetries >= 1
RetryBounded ==
    retry.maxRetries >= 1 =>
        LET n == Len(retry.outcomes)
            last == retry.outcomes[n]
        IN  /\ n <= retry.maxRetries
            /\ \A k \in 1..n :
                 k < n \/ retry.pc = "waiting" =>
                     ~retry.outcomes[k].ok
                     /\ retry.outcomes[k].status \notin {Some(400), Some(401), Some(403)}
            /\ retry.pc = "returned" =>
                 last.ok /\ retry.result = Some(last)
            /\ retry.pc = "threw" =>
                 /\ ~last.ok /\ retry.result = Some(last)
                 /\ \/ last.status \in {Some(400), Some(401), Some(403)}
                    \/ n = retry.maxRetries
            /\ retry.pc = "waiting" => n < retry.maxRetries
            /\ Len(retry.waits) = (IF RetryEnded THEN n - 1 ELSE n)
            /\ \A k \in 1..Len(retry.waits) :
                 retry.waits[k] = retry.delay * Pow2(k - 1)

\* C18: a call of getDelegationWithRetry with maxRetries >= 1 ends, after at
\* most maxRetries requests: it returns the first successful response,
\* rethrows an APIError with status 400, 401 or 403 at once, retries any other
\* failure after a wait of delay * 2^(k-1) ms before the k-th retry, and
\* throws the last error after the maxRetries-th failure.
C18_RetryEnds ==
    /\ [](retry.pc # "idle" => RetryBounded)
    /\ (RetryRunning ~> RetryEnded)

\* the third request succeeded after two failures and two waits
C18_Witness_ThirdRequestSucceeds ==
    /\ retry.pc = "returned"
    /\ Len(retry.outcomes) = 3
    /\ retry.waits = <<retry.delay, 2 * retry.delay>>

----------------------------------------------------------------------------
(* Properties of the upload progress map *)

StatusMoves ==
    { <<"pending", "uploading">>, <<"pending", "error">>,
      <<"uploading", "completed">>, <<"uploading", "error">> }

ProgressEntryConsistent(entry) ==
    /\ entry.status = "uploading" => entry.progress >= 5 /\ entry.progress <= 90
    /\ entry.status = "completed" =>
         entry.progress = 100 /\ entry.bytesUploaded = entry.totalBytes
    /\ entry.status = "error" => entry.progress = 0

\* C19: the status of a progress entry only moves pending -> uploading ->
\* (completed | error) or pending -> error and never leaves completed or
\* error; while uploading the percentage is within 5..90 and does not
\* decrease; completed goes with 100 and bytesUploaded = totalBytes, error
\* with 0.  A call of uploadFile starts a new entry, also under an identifier
\* that an earlier upload of the same file in the same millisecond had.
C19_ProgressLifecycle ==
    [][\A fileId \in DOMAIN uploadProgress' :
         LET after == uploadProgress'[fileId]
         IN  /\ ProgressEntryConsistent(after)
             /\ IF uploadFile
                THEN after.status \in {"pending", "uploading", "error"}
                ELSE IF fileId \in DOMAIN uploadProgress
                THEN LET before == uploadProgress[fileId]
                     IN  /\ \/ before.status = after.status
                            \/ <<before.status, after.status>> \in StatusMoves
                         /\ before.status = "uploading" /\ after.status = "uploading"
                              => after.progress >= before.progress
                ELSE after.status \in {"pending", "uploading", "error"}]_vars

FileIds == { FileId(time, file) : time \in 0..MaxNow, file \in Files }

Finished(fileId) ==
    /\ fileId \in DOMAIN uploadProgress
    /\ uploadProgress[fileId].status \in {"completed", "error"}

\* C20: every progress entry that reaches completed or error is eventually
\* removed from the map, whether the upload succeeded, failed, was attempted
\* without a login or was cancelled.
C20_FinishedEntriesRemoved ==
    \A fileId \in FileIds :
        Finished(fileId) ~> (fileId \notin DOMAIN uploadProgress)

----------------------------------------------------------------------------
(* Properties of uploadFile *)

UploadFileEnded(ret) ==
    ret # Null /\ Val(ret).op \in {"uploadFile", "uploadFile rejected"}

\* C21: uploadFile never rejects: without client or space, and when the SDK
\* upload throws, it resolves to success=false with the failure message; the
\* SDK upload was invoked at most once for the call (not at all without client
\* or space), and no record is added to the uploads list or to storage.
C21_UploadFailureIsAResult ==
    [][UploadFileEnded(lastReturn') =>
         /\ Val(lastReturn').op = "uploadFile"
         /\ ~Val(lastReturn').ok =>
              /\ Val(lastReturn').error # Null
              /\ uploadedFiles' = uploadedFiles
              /\ localStorage'.uploads = localStorage.uploads
              /\ started' = started
              /\ IF IsNull(client) \/ IsNull(space)
                 THEN \/ uploads' = uploads
                      \/ \E u \in BagToSet(uploads) : uploads' = uploads (-) SetToBag({u})
                 ELSE \E u \in BagToSet(uploads) : uploads' = uploads (-) SetToBag({u})]_vars

\* the SDK rejected with null while the expert hook was uploading
C21_Witness_RejectedWithNull ==
    /\ app = "expert"
    /\ UploadFileEnded(lastReturn)
    /\ ~Val(lastReturn).ok
    /\ Val(lastReturn).error = Some(NullHasNoMessage)
    /\ ~isUploading

ListPersisted ==
    IF localStorage.uploads = Null THEN uploadedFiles = <<>>
    ELSE localStorage.uploads = Some(JSONstringifyUploads(uploadedFiles))

UploadSucceeded(ret) == ret # Null /\ Val(ret).op = "uploadFile" /\ Val(ret).ok

\* C22: after any uploads and clearUploads the in-memory uploads list equals
\* the list persisted under storacha_uploads; a successful upload inserts one
\* record at the head and leaves the records already there as they were; the
\* record of a 2 MB image has size 2097152, an image type and a thumbnailUrl
\* with img-width=300.
C22_UploadsListPersisted ==
    [][/\ mounted' = "yes" => ListPersisted'
       /\ UploadSucceeded(lastReturn') =>
            /\ Len(uploadedFiles') = Len(uploadedFiles) + 1
            /\ Tail(uploadedFiles') = uploadedFiles
            /\ LET record == Head(uploadedFiles')
               IN  record.name = "a.png" =>
                     /\ record.size = 2097152
                     /\ StartsWith(record.type, <<"i","m","a","g","e","/">>)
                     /\ \E i \in 1..Len(record.thumbnailUrl) :
                          record.thumbnailUrl[i] = "?img-width=300"
       /\ lastReturn' # Null /\ Val(lastReturn').op = "clearUploads" =>
            uploadedFiles' = <<>>]_vars

\* the image was uploaded on top of the two records of an earlier run
C22_Witness_ImageOnTop ==
    /\ UploadSucceeded(lastReturn)
    /\ Len(uploadedFiles) = 3
    /\ Head(uploadedFiles).name = "a.png"
    /\ localStorage.uploads = Some(JSONstringifyUploads(uploadedFiles))

----------------------------------------------------------------------------
(* Properties of uploads that overlap *)

\* C23: two uploadFile calls that are pending at the same time never share a
\* fileId, also when they upload files of the same name within the same
\* millisecond.
C23_PendingFileIdsDistinct ==
    \A u, v \in BagToSet(uploads) :
        /\ u.fileId = v.fileId => u = v
        /\ \A w \in BagToSet(uploads) :
             w.fileId = u.fileId /\ w.aborted = u.aborted => CopiesIn(w, uploads) = 1

CancelReturned(ret) == ret # Null /\ Val(ret).op = "cancelUpload"

C29_CancelledNeverCompletes ==
    [][\A u \in BagToSet(uploads) :
         u.aborted /\ uploads' = uploads (-) SetToBag({u}) =>
             /\ uploadedFiles' = uploadedFiles
             /\ localStorage'.uploads = localStorage.uploads
             /\ u.fileId \in DOMAIN uploadProgress' =>
                  uploadProgress'[u.fileId].status # "completed"
             /\ ~UploadSucceeded(lastReturn')]_vars

IntervalsOf(bag) == { t \in BagToSet(bag) : t.kind = "interval" }

\* C30: the progress timer that uploadFile starts is stopped when the call
\* ends, by failure as well as by success: once every upload has settled no
\* progress timer is left.
C30_ProgressTimerStopped ==
    /\ uploads = EmptyBag => IntervalsOf(timers) = {}
    /\ \A t \in IntervalsOf(timers) : \E u \in BagToSet(uploads) : u.fileId = t.fileId


\* the hook holds no session: nothing stored, nobody logged in, no client
LoggedOut ==
    /\ localStorage.session = Null
    /\ ~userSession.isLoggedIn
    /\ client = Null
    /\ app = "dapp" => ~isConnected

\* C27: once logout has run, the session stays logged out until a login is
\* started after that logout: a loginWithEmail, loginWithDelegation or
\* refreshSpaces call that was in flight when logout ran and completes right
\* after it neither stores a session again nor restores the client.
C27_LogoutWins ==
    [][/\ lastReturn # Null /\ Val(lastReturn).op = "logout"
       /\ \E c \in BagToSet(calls) : calls' = calls (-) SetToBag({c})
       => LoggedOut']_vars

\* C28: in the dApp hook, isConnected is true exactly when client and space
\* are both non-null and the session is logged in.
C28_ConnectedIffSession ==
    app = "dapp" =>
        (isConnected <=> client # Null /\ space # Null /\ userSession.isLoggedIn)


\* C25: the backend's storachaClient is non-null only if a run of
\* initializeStoracha has completed successfully (proof parsed, space added,
\* current space set), and a run that fails leaves storachaClient as the run
\* found it.
C25_ClientOnlyAfterInitialisation ==
    /\ server.storachaClient # 0 => server.initialized
    /\ server.event # Null /\ Val(server.event).initReturned \in {"false", "rejects"}
       => server.storachaClient = Val(server.event).before

\* C26: whatever the interleaving of GET /api/delegation/:did and
\* GET /api/test-setup requests, createDelegation is never called on a client
\* for which addSpace and setCurrentSpace have not both completed.
C26_DelegatesOnConfiguredClient ==
    server.event # Null /\ Val(server.event).called = "createDelegation" =>
        LET on == server.clients[Val(server.event).target]
        IN  on.spaceAdded /\ on.currentSpace

====
